---- MODULE Spec2Model ----
(***************************************************************************)
(* Audio2Face blendshape driver (createAudio2FaceBlendshapeDriver) as a    *)
(* state machine: sessions keyed by response id, the audio backlog and its *)
(* drain requests, the response normalizer, the playback frame queue, the  *)
(* fallback finalization timers and the idle closure done by update().     *)
(*                                                                         *)
(* Wall-clock values (performance.now()) are in milliseconds.  Frame and   *)
(* audio-clock times are exact multiples of 1/UNITS_PER_SEC seconds, so    *)
(* that 1/30 s, 5 ms, 0.1 s, 1e-3 s, 1e-4 s and 1e-6 s are all integers.   *)
(* Blendshape weights are in thousandths (W_ONE = 1.0).                    *)
(***************************************************************************)
EXTENDS Integers, Sequences, FiniteSets, TLC

\* ------------------------------------------------------------------ bounds
MaxEvents == 5         \* producer calls, control calls and clock advances per behaviour
MaxAudioK == 2         \* audio-clock values offered to update()
MaxObjs == MaxEvents       \* every new session object takes a call
MaxReqs == MaxEvents + 1   \* every further request in flight takes a call
MaxKeyLen == 3         \* characters of a raw key given to canonicalizeBlendshapeName

\* ------------------------------------------------------------------ units
UNITS_PER_SEC == 3 * 1000 * 1000
W_ONE == 10 * 100
NoTime == 0 - (UNITS_PER_SEC * 100)           \* null / non-finite time
NegInf == NoTime - 1                          \* -Infinity

\* The element of a singleton.  The({e : x \in {v}}) is e with x bound to the
\* value of v, computed once; nested bindings read from the innermost line out.
The(S) == CHOOSE r \in S : TRUE

Max2(a, b) == IF a >= b THEN a ELSE b
Min2(a, b) == IF a <= b THEN a ELSE b
Abs(a) == IF a < 0 THEN 0 - a ELSE a

\* ------------------------------------------------------------------ program constants
DEFAULT_FRAME_DELTA_SEC == UNITS_PER_SEC \div 30
FRAME_MIN_SPACING_SEC == DEFAULT_FRAME_DELTA_SEC
FRAME_EARLY_TOLERANCE_SEC == (5 * UNITS_PER_SEC) \div 1000
FRAME_LATE_DROP_SEC == UNITS_PER_SEC \div 10
FALLBACK_SILENCE_TIMEOUT_MS == 600
DEFAULT_DRAIN_TARGET_SEC == 240               \* 0.24 s, in ms of audio
DEFAULT_DRAIN_INTERVAL_MS == 100
MIN_DRAIN_INTERVAL_MS == 40
IDLE_CLOSE_MS == 250
A2F_DECAY_FACTOR == 85                        \* 0.85, in hundredths
MERGE_EPSILON == UNITS_PER_SEC \div 10000     \* EPSILON = 1e-4 s

ClockStep == FALLBACK_SILENCE_TIMEOUT_MS \div 2  \* granularity of the wall clock
StartNow == 4 * ClockStep                       \* performance.now() at Init

\* ------------------------------------------------------------------ state
VARIABLES
  now,                          \* performance.now(), ms
  sessions,                     \* the Map sessions: id -> heap index, 0 = absent
  heap,                         \* every session object ever created
  fallbackFinalizationTimers,   \* id -> [armed, deadline, gen]
  requests,                     \* slot -> request in flight (status "free" = none)
  activeResponseId,
  totals,                       \* the map update() returned last
  env,                          \* budgets of the environment
  obs,                          \* observations used by the properties
  probe                         \* a pure function under check: its input and result

vars == <<now, sessions, heap, fallbackFinalizationTimers, requests,
          activeResponseId, totals, env, obs, probe>>

Ids == DOMAIN sessions            \* the response ids the producer uses in this behaviour
NoId == "none"
ZeroMap == [n \in {} |-> 0]                     \* new Map(): a weight map without keys

NoAnchor == [set |-> FALSE, audio0 |-> 0, a2f0 |-> 0]

createSession(id) ==
  [ id |-> id,
    chunks |-> <<>>,
    floatChunks |-> <<>>,
    frames |-> <<>>,
    currentValues |-> ZeroMap,
    frameQueue |-> <<>>,
    anchor |-> NoAnchor,
    lastEmitAudioTime |-> NegInf,
    lastFrameTime |-> 0,
    framesCoveredSec |-> 0,
    pending |-> 0,
    lastChunkAt |-> 0,
    sourceType |-> "none",
    lastDrainAt |-> 0,
    lastDrainRequestedAt |-> 0,
    audioCompleted |-> FALSE,
    idleDrainSince |-> NoTime,
    lateDropsTotal |-> 0 ]

NoTimer == [armed |-> FALSE, deadline |-> 0, stale |-> FALSE]

FreeReq == [status |-> "free", obj |-> 0, sid |-> NoId, kind |-> "none",
            force |-> FALSE, cids |-> {}, chunkType |-> "none",
            chunksDrained |-> 0, baseTimeSec |-> 0, startedAt |-> 0,
            cbs |-> <<>>]

\* The world a handler runs in: the driver's state plus the observations.
World == [ now |-> now, sessions |-> sessions, heap |-> heap,
           timers |-> fallbackFinalizationTimers, requests |-> requests,
           activeResponseId |-> activeResponseId, totals |-> totals, obs |-> obs,
           ovf |-> FALSE ]

\* Session objects that the store, a request in flight or one of its callbacks
\* still refers to; the others are garbage and cannot act any more.
Live(w) ==
  {w.sessions[id] : id \in Ids}
    \cup {w.requests[i].obj : i \in 1..MaxReqs}
    \cup UNION {{w.requests[i].cbs[k].obj : k \in 1..Len(w.requests[i].cbs)} : i \in 1..MaxReqs}

Commit(result) ==
  \E w \in {result} :
    /\ ~w.ovf
    /\ sessions' = w.sessions
    /\ heap' = [i \in 1..Len(w.heap) |->
                  IF i \in Live(w) THEN w.heap[i] ELSE createSession(NoId)]
    /\ fallbackFinalizationTimers' = w.timers
    /\ requests' = w.requests
    /\ activeResponseId' = w.activeResponseId
    /\ totals' = w.totals
    /\ obs' = w.obs


\* ------------------------------------------------------------------ response normalizer
\* A raw response frame is [timeCode, blendShapes]; timeCode = NoTime when the
\* response gives none (Number(undefined) is NaN).

\* a clamp that lets every value through
clampNone(value) == value

clamp01(value) == Min2(W_ONE, Max2(0, value))

\* A weight map (a Map from name to weight) is a function on the set of its keys.
MapSet(map, key, value) == [k \in DOMAIN map \cup {key} |-> IF k = key THEN value ELSE map[k]]
MapDelete(map, key) == [k \in DOMAIN map \ {key} |-> map[k]]

cloneBlendshapeMap(map) == [k \in {x \in DOMAIN map : map[x] > 0} |-> map[k]]

\* decayed > 1e-3, in thousandths: value * 0.85 > 1
decayToNeutral(values) ==
  [k \in {x \in DOMAIN values : values[x] * A2F_DECAY_FACTOR > 100} |->
     Max2(0, Min2(W_ONE, (values[k] * A2F_DECAY_FACTOR) \div 100))]

\* ------------------------------------------------------------------ strings, names
\* A string is a sequence of one-character strings.  The alphabet: the letters
\* of CaseTable in both cases, a digit, the separators - _ and blank, and a full
\* stop standing for every other character.  null and "" are both <<>> (each
\* use in the driver tests the name for truthiness).
CaseTable == {<<"a", "A">>, <<"b", "B">>, <<"e", "E">>, <<"j", "J">>,
              <<"n", "N">>, <<"o", "O">>, <<"p", "P">>, <<"w", "W">>}
LowerLetters == {p[1] : p \in CaseTable}
UpperLetters == {p[2] : p \in CaseTable}
Digits == {"1"}
Whitespace == {" "}
Separators == {"-", "_"} \cup Whitespace                          \* [-_\s]
IsAlnum(c) == c \in LowerLetters \cup UpperLetters \cup Digits    \* [A-Za-z0-9]

toLowerCaseChar(c) == IF c \in UpperLetters THEN (CHOOSE p \in CaseTable : p[2] = c)[1] ELSE c
toUpperCaseChar(c) == IF c \in LowerLetters THEN (CHOOSE p \in CaseTable : p[1] = c)[2] ELSE c
toLowerCase(s) == [i \in 1..Len(s) |-> toLowerCaseChar(s[i])]

RECURSIVE trimStart(_)
trimStart(s) == IF s # <<>> /\ Head(s) \in Whitespace THEN trimStart(Tail(s)) ELSE s

RECURSIVE trimEnd(_)
trimEnd(s) ==
  IF s # <<>> /\ s[Len(s)] \in Whitespace THEN trimEnd(SubSeq(s, 1, Len(s) - 1)) ELSE s

trim(s) == trimEnd(trimStart(s))

\* replace(/[^A-Za-z0-9]+/g, '')
Compact(s) == SelectSeq(s, IsAlnum)

\* replace(/[-_\s]+(.)?/g, (_, next) => (next ? next.toUpperCase() : ''))
RECURSIVE CollapseSeparators(_)
CollapseSeparators(s) ==
  IF s = <<>> THEN <<>>
  ELSE IF Head(s) \in Separators THEN
    IF Tail(s) = <<>> THEN <<>>
    ELSE IF Head(Tail(s)) \in Separators THEN CollapseSeparators(Tail(s))
    ELSE <<toUpperCaseChar(Head(Tail(s)))>> \o CollapseSeparators(Tail(Tail(s)))
  ELSE <<Head(s)>> \o CollapseSeparators(Tail(s))

\* a replacement that changes the case of a first letter either way
ToggleFirst(s) ==
  IF s # <<>> /\ Head(s) \in LowerLetters THEN <<toUpperCaseChar(Head(s))>> \o Tail(s)
  ELSE IF s # <<>> /\ Head(s) \in UpperLetters THEN <<toLowerCaseChar(Head(s))>> \o Tail(s)
  ELSE s

\* replace(/^[a-z]/, (char) => char.toUpperCase())
UpperFirst(s) ==
  IF s # <<>> /\ Head(s) \in LowerLetters THEN <<toUpperCaseChar(Head(s))>> \o Tail(s) ELSE s

\* The canonical table, restricted to the names over the alphabet.
jawOpen == <<"j", "a", "w", "O", "p", "e", "n">>
BLENDSHAPE_CANONICAL_NAMES == {jawOpen}
BLENDSHAPE_CANON_MAP ==
  [key \in {toLowerCase(Compact(name)) : name \in BLENDSHAPE_CANONICAL_NAMES} |->
     CHOOSE name \in BLENDSHAPE_CANONICAL_NAMES : toLowerCase(Compact(name)) = key]

getBlendshapeDedupeKey(name) == SelectSeq(toLowerCase(trim(name)), IsAlnum)

canonicalizeBlendshapeName(name) ==
  The({
    IF trimmed = <<>> THEN <<>>
    ELSE IF toLowerCase(Compact(trimmed)) \in DOMAIN BLENDSHAPE_CANON_MAP
      THEN BLENDSHAPE_CANON_MAP[toLowerCase(Compact(trimmed))]
    ELSE
      The({
        IF toLowerCase(Compact(camelized)) \in DOMAIN BLENDSHAPE_CANON_MAP
          THEN BLENDSHAPE_CANON_MAP[toLowerCase(Compact(camelized))]
        ELSE IF camelized # <<>> THEN camelized ELSE trimmed
      : camelized \in {UpperFirst(CollapseSeparators(trimmed))}})
  : trimmed \in {trim(name)}})

\* Array.from(new Set(list)).filter(Boolean)
RECURSIVE UniqueNonEmpty(_, _)
UniqueNonEmpty(list, seen) ==
  IF list = <<>> THEN <<>>
  ELSE IF Head(list) = <<>> \/ Head(list) \in seen THEN UniqueNonEmpty(Tail(list), seen)
  ELSE <<Head(list)>> \o UniqueNonEmpty(Tail(list), seen \cup {Head(list)})

getBlendshapeAliases(name) ==
  The({
    IF trimmed = <<>> THEN <<>>
    ELSE
      The({ UniqueNonEmpty(<<trimmed,
                             canonical,
                             <<toLowerCaseChar(Head(canonical))>> \o Tail(canonical),
                             toLowerCase(canonical)>>, {})
          : canonical \in {IF CollapseSeparators(trimmed) # <<>>
                             THEN CollapseSeparators(trimmed) ELSE trimmed}})
  : trimmed \in {trim(name)}})

\* aliases.forEach: an alias that normalized already has keeps its value
RECURSIVE AddAliases(_, _, _)
AddAliases(normalized, aliases, numeric) ==
  IF aliases = <<>> THEN normalized
  ELSE AddAliases(
         IF \E i \in 1..Len(normalized) : normalized[i].name = Head(aliases)
           THEN normalized
           ELSE Append(normalized, [name |-> Head(aliases), value |-> numeric]),
         Tail(aliases), numeric)

\* normalizeBlendshapeValues(source).normalized.  An object is the sequence of
\* its entries [name, value] in insertion order.
RECURSIVE NormalizeEntries(_, _)
NormalizeEntries(source, normalized) ==
  IF source = <<>> THEN normalized
  ELSE NormalizeEntries(
         Tail(source),
         AddAliases(normalized, getBlendshapeAliases(Head(source).name), Head(source).value))

normalizeBlendshapeValues(source) == NormalizeEntries(source, <<>>)

\* Array.prototype.sort with (a, b) => a.time - b.time: stable, ascending.
RECURSIVE InsertByTime(_, _)
InsertByTime(seq, e) ==
  IF seq = <<>> THEN <<e>>
  ELSE IF Head(seq).time <= e.time
         THEN <<Head(seq)>> \o InsertByTime(Tail(seq), e)
         ELSE <<e>> \o seq

RECURSIVE SortByTime(_)
SortByTime(seq) ==
  IF seq = <<>> THEN <<>>
  ELSE InsertByTime(SortByTime(SubSeq(seq, 1, Len(seq) - 1)), seq[Len(seq)])

\* prepared.sort: the key of an entry without a time code is its index.
PreparedKey(e) == IF e.timeCode # NoTime THEN e.timeCode ELSE e.index * UNITS_PER_SEC

PrepareFrames(rawFrames) ==
  [i \in 1..Len(rawFrames) |->
     LET e == [index |-> i - 1, timeCode |-> rawFrames[i].timeCode] IN
     [index |-> i - 1,
      timeCode |-> rawFrames[i].timeCode,
      blendShapes |-> normalizeBlendshapeValues(rawFrames[i].blendShapes),
      time |-> PreparedKey(e)]]

\* a forEach that leaves every time code as it came
AssignTimesNoBump(prepared, lastTime, lastDelta) ==
  [i \in 1..Len(prepared) |->
     [prepared[i] EXCEPT !.time = IF prepared[i].timeCode # NoTime
                                    THEN prepared[i].timeCode ELSE 0]]

\* The forEach that makes entry.time strictly increasing.
RECURSIVE AssignTimes(_, _, _)
AssignTimes(prepared, lastTime, lastDelta) ==
  IF prepared = <<>> THEN <<>>
  ELSE
    LET e == Head(prepared)
        t0 == IF e.timeCode # NoTime THEN e.timeCode ELSE 0   \* Number(null) is 0
        fallbackDelta == IF lastDelta > MERGE_EPSILON THEN lastDelta
                         ELSE DEFAULT_FRAME_DELTA_SEC
        t1 == IF lastTime # NoTime /\ t0 <= lastTime THEN lastTime + fallbackDelta ELSE t0
        d == IF lastTime # NoTime /\ t1 - lastTime > (UNITS_PER_SEC \div 1000000)
               THEN t1 - lastTime ELSE lastDelta
    IN <<[e EXCEPT !.time = t1]>> \o AssignTimes(Tail(prepared), t1, d)

\* a forEach that keeps the name stored before when a larger weight comes under
\* another name
RECURSIVE DedupeEntriesKeepOld(_, _, _)
DedupeEntriesKeepOld(entries, values, dedupeMap) ==
  IF entries = <<>> THEN values
  ELSE
    The({
      IF clamped <= 0 \/ canonicalName = <<>>
        THEN DedupeEntriesKeepOld(Tail(entries), values, dedupeMap)
      ELSE IF canonicalName \in DOMAIN values /\ ~(clamped >= values[canonicalName])
        THEN DedupeEntriesKeepOld(Tail(entries), values, dedupeMap)
      ELSE DedupeEntriesKeepOld(Tail(entries), MapSet(values, canonicalName, clamped), dedupeMap)
    : canonicalName \in {canonicalizeBlendshapeName(Head(entries).name)},
      clamped \in {clamp01(Head(entries).value)}})

\* Object.entries(entry.blendShapes).forEach of normalizedFrames: values is the
\* frame's weight map, dedupeMap maps a dedupe key to [canonicalName, value].
RECURSIVE DedupeEntries(_, _, _)
DedupeEntries(entries, values, dedupeMap) ==
  IF entries = <<>> THEN values
  ELSE
    The({ The({
      IF clamped <= 0 \/ canonicalName = <<>> \/ dedupeKey = <<>>
        THEN DedupeEntries(Tail(entries), values, dedupeMap)
      ELSE IF dedupeKey \in DOMAIN dedupeMap /\ ~(clamped >= dedupeMap[dedupeKey].value)
        THEN DedupeEntries(Tail(entries), values, dedupeMap)
      ELSE DedupeEntries(
             Tail(entries),
             MapSet(IF dedupeKey \in DOMAIN dedupeMap
                      THEN MapDelete(values, dedupeMap[dedupeKey].canonicalName)
                      ELSE values,
                    canonicalName, clamped),
             MapSet(dedupeMap, dedupeKey, [canonicalName |-> canonicalName, value |-> clamped]))
    : dedupeKey \in
        {IF getBlendshapeDedupeKey(canonicalName) # <<>>
           THEN getBlendshapeDedupeKey(canonicalName)
         ELSE IF getBlendshapeDedupeKey(Head(entries).name) # <<>>
           THEN getBlendshapeDedupeKey(Head(entries).name)
         ELSE toLowerCase(canonicalName)}})
    : canonicalName \in {canonicalizeBlendshapeName(Head(entries).name)},
      clamped \in {clamp01(Head(entries).value)}})

NormalizeValues(blendShapes) == DedupeEntries(blendShapes, ZeroMap, ZeroMap)

RECURSIVE MaxLocalTime(_)
MaxLocalTime(frames) ==
  IF frames = <<>> THEN 0 ELSE Max2(Head(frames).localTime, MaxLocalTime(Tail(frames)))

\* merged frames within EPSILON of the previous kept one replace it.
RECURSIVE DedupeByEpsilon(_, _)
DedupeByEpsilon(deduped, merged) ==
  IF merged = <<>> THEN deduped
  ELSE LET frame == Head(merged) IN
       IF deduped # <<>> /\ Abs(frame.time - deduped[Len(deduped)].time) <= MERGE_EPSILON
         THEN DedupeByEpsilon([deduped EXCEPT ![Len(deduped)] = frame], Tail(merged))
         ELSE DedupeByEpsilon(Append(deduped, frame), Tail(merged))

\* applyBlendshapeFrames: [s |-> the session afterwards, out |-> normalizedFrames]
applyBlendshapeFrames(sessionIn, data, append, baseTimeSec) ==
  The({
    IF PrepareFrames(data.frames) = <<>> THEN
      [s |-> IF append THEN session
             ELSE [session EXCEPT !.frames = <<>>, !.currentValues = ZeroMap,
                                  !.framesCoveredSec = 0],
       out |-> <<>>]
    ELSE
      The({
      LET maxLocalTime == MaxLocalTime(normalizedFrames)
          coverageBase == Max2(baseTimeSec, session.framesCoveredSec)
          lastAbsolute == normalizedFrames[Len(normalizedFrames)].time
          localSpan == Max2(0, lastAbsolute - baseTimeSec)
          coverageAdvance == Max2(maxLocalTime, localSpan)
          minimumAdvance == IF Len(normalizedFrames) > 1 THEN coverageAdvance
                            ELSE Max2(coverageAdvance, DEFAULT_FRAME_DELTA_SEC)
          covered == [session EXCEPT !.framesCoveredSec = coverageBase + minimumAdvance]
      IN
      IF append /\ session.frames # <<>> THEN
        [s |-> [covered EXCEPT
                  !.frames = DedupeByEpsilon(<<>>, SortByTime(session.frames \o normalizedFrames)),
                  !.currentValues = cloneBlendshapeMap(session.currentValues)],
         out |-> normalizedFrames]
      ELSE
        [s |-> [covered EXCEPT
                  !.frames = normalizedFrames,
                  !.currentValues = cloneBlendshapeMap(normalizedFrames[1].values)],
         out |-> normalizedFrames]
      : normalizedFrames \in
          {[i \in 1..Len(timed) |->
              [time |-> baseTimeSec + timed[i].time,
               localTime |-> timed[i].time,
               values |-> NormalizeValues(timed[i].blendShapes)]]
           : timed \in {AssignTimes(SortByTime(PrepareFrames(data.frames)),
                                    NoTime, DEFAULT_FRAME_DELTA_SEC)}}})
  : session \in {sessionIn}})

\* ------------------------------------------------------------------ playback scheduler
\* a scheduleFramePlayback that plays the frames of a session without an
\* anchor at their own times
scheduleFramePlaybackUnanchored(session, frame) ==
  IF ~session.anchor.set THEN [frame EXCEPT !.playAt = frame.time]
  ELSE [frame EXCEPT !.playAt = session.anchor.audio0 + (frame.time - session.anchor.a2f0)]

scheduleFramePlayback(session, frame) ==
  IF ~session.anchor.set THEN [frame EXCEPT !.playAt = NoTime]
  ELSE [frame EXCEPT !.playAt = session.anchor.audio0 + (frame.time - session.anchor.a2f0)]

RescheduleQueue(session, queue) ==
  [i \in 1..Len(queue) |-> scheduleFramePlayback(session, queue[i])]

\* an enqueue that appends the new frames without sorting the queue
enqueueUnsorted(sessionIn, frames) ==
  The({
    IF frames = <<>> THEN session
    ELSE
      The({ [session EXCEPT !.frameQueue = queue, !.lastFrameTime = queue[Len(queue)].time]
          : queue \in
              {LET queued == [i \in 1..Len(frames) |->
                               [time |-> frames[i].time, values |-> frames[i].values,
                                playAt |-> NoTime]]
               IN RescheduleQueue(session, session.frameQueue \o queued)}})
  : session \in {sessionIn}})

enqueueSessionFrames(sessionIn, frames) ==
  The({
    IF frames = <<>> THEN session
    ELSE
      The({ [session EXCEPT !.frameQueue = queue, !.lastFrameTime = queue[Len(queue)].time]
          : queue \in
              {LET queued == [i \in 1..Len(frames) |->
                               [time |-> frames[i].time, values |-> frames[i].values,
                                playAt |-> NoTime]]
               IN RescheduleQueue(session, SortByTime(session.frameQueue \o queued))}})
  : session \in {sessionIn}})

\* a pump that makes the head of the queue current at every tick
pumpHeadAlways(sessionIn, nowAudio) ==
  IF sessionIn.frameQueue = <<>> THEN sessionIn
  ELSE [sessionIn EXCEPT !.currentValues = sessionIn.frameQueue[1].values,
                         !.lastEmitAudioTime = nowAudio,
                         !.frameQueue = Tail(@)]

\* pumpSessionFrames: the while loop, one iteration per unfolding.
RECURSIVE pumpSessionFrames(_, _)
pumpSessionFrames(sessionIn, nowAudio) ==
  The({
    IF session.frameQueue = <<>> THEN session
    ELSE
      The({
      LET rest == Tail(session.frameQueue)
          seen == [session EXCEPT !.frameQueue = <<next>> \o rest]
      IN
      IF next.playAt = NoTime THEN seen
      ELSE IF nowAudio + FRAME_EARLY_TOLERANCE_SEC < next.playAt THEN seen
      ELSE IF nowAudio - next.playAt > FRAME_LATE_DROP_SEC THEN
        pumpSessionFrames([seen EXCEPT !.frameQueue = rest,
                                       !.lateDropsTotal = @ + 1], nowAudio)
      ELSE IF session.lastEmitAudioTime # NegInf
              /\ nowAudio - session.lastEmitAudioTime < FRAME_MIN_SPACING_SEC THEN seen
      ELSE [seen EXCEPT !.currentValues = next.values,
                        !.lastEmitAudioTime = nowAudio,
                        !.lastFrameTime = Max2(@, next.time),
                        !.frameQueue = rest]
      : next \in {LET head == session.frameQueue[1]
                  IN IF head.playAt = NoTime THEN scheduleFramePlayback(session, head)
                     ELSE head}})
  : session \in {sessionIn}})

resetSessionPlayback(sessionIn) ==
  The({
    [session EXCEPT !.frameQueue = <<>>, !.anchor = NoAnchor, !.lastEmitAudioTime = NegInf,
                    !.lastFrameTime = 0, !.currentValues = ZeroMap, !.frames = <<>>,
                    !.framesCoveredSec = 0, !.chunks = <<>>, !.floatChunks = <<>>,
                    !.pending = 0, !.idleDrainSince = NoTime, !.lateDropsTotal = 0]
  : session \in {sessionIn}})


\* ------------------------------------------------------------------ session store, timers
\* a getSession that hands a new id the session object of an id already stored
getSessionShared(world, id) ==
  The({
    IF w.sessions[id] # 0 THEN w
    ELSE IF \E x \in Ids : w.sessions[x] # 0
      THEN [w EXCEPT !.sessions[id] = w.sessions[CHOOSE x \in Ids : w.sessions[x] # 0]]
    ELSE [w EXCEPT !.heap = Append(@, createSession(id)),
                   !.sessions[id] = Len(w.heap) + 1,
                   !.obs.emittedAt = MapDelete(@, id),
                   !.obs.emittedFrame = MapDelete(@, id)]
  : w \in {world}})

\* getSession: the caller's guard keeps Len(heap) < MaxObjs when it creates.
getSession(world, id) ==
  The({
    IF w.sessions[id] # 0 THEN w
    ELSE [w EXCEPT !.heap = Append(@, createSession(id)),
                   !.sessions[id] = Len(w.heap) + 1,
                   !.obs.emittedAt = MapDelete(@, id),
                   !.obs.emittedFrame = MapDelete(@, id)]
  : w \in {world}})

\* a clearFallbackTimer that leaves the timer running
keepFallbackTimer(w, id) == w

clearFallbackTimer(world, id) ==
  The({
    [w EXCEPT !.timers[id] = NoTimer]
  : w \in {world}})

\* the setTimeout of scheduleFallbackFinalization; its callback is FallbackTimerFired
scheduleFallbackFinalization(world, id) ==
  The({
    [w EXCEPT !.timers[id] = [armed |-> TRUE,
                              deadline |-> w.now + FALLBACK_SILENCE_TIMEOUT_MS,
                              stale |-> FALSE]]
  : w \in {clearFallbackTimer(world, id)}})

\* ------------------------------------------------------------------ drainer
RECURSIVE SumMs(_)
SumMs(chunks) == IF chunks = <<>> THEN 0 ELSE Head(chunks).ms + SumMs(Tail(chunks))

\* The selection loop: chunks are taken from the front until the accumulated
\* seconds reach requiredSeconds, or after the first one when forced.
RECURSIVE SelectCount(_, _, _, _)
SelectCount(chunks, accum, requiredSeconds, isForce) ==
  IF chunks = <<>> THEN 0
  ELSE IF accum + Head(chunks).ms >= requiredSeconds \/ isForce THEN 1
  ELSE 1 + SelectCount(Tail(chunks), accum + Head(chunks).ms, requiredSeconds, isForce)

NoPayload == [ok |-> FALSE, cids |-> {}, chunksDrained |-> 0, chunkType |-> "none"]

encodeNewAudioForDrain(sessionIn, minSeconds, isForce) ==
  The({
    LET sourceType == IF session.sourceType # "none" THEN session.sourceType
                      ELSE IF Len(session.floatChunks) > 0 THEN "float32" ELSE "pcm16"
        all == IF sourceType = "pcm16" THEN session.chunks ELSE session.floatChunks
        n == SelectCount(all, 0, minSeconds, isForce)
        selected == SubSeq(all, 1, n)
    IN IF n = 0 \/ (~isForce /\ SumMs(selected) < minSeconds) THEN NoPayload
       ELSE [ok |-> TRUE, cids |-> {selected[i].cid : i \in 1..n},
             chunksDrained |-> n, chunkType |-> sourceType]
  : session \in {sessionIn}})

FreeSlots(w) == {i \in 1..MaxReqs : w.requests[i].status = "free"}

\* requestBlendshapes: the fetch is issued; the promise stays pending until
\* RequestCompletes.  [w, p]: p is the slot of the request, 0 when none was issued.
requestBlendshapes(world, ref, kind, force, payload, baseTimeSec) ==
  The({
    IF FreeSlots(w) = {} THEN [w |-> [w EXCEPT !.ovf = TRUE], p |-> 0]
    ELSE
      LET slot == CHOOSE i \in FreeSlots(w) : \A j \in FreeSlots(w) : i <= j
          s == w.heap[ref]
      IN [w |-> [w EXCEPT
                   !.requests[slot] =
                      [status |-> "outstanding", obj |-> ref, sid |-> s.id, kind |-> kind,
                       force |-> force, cids |-> payload.cids,
                       chunkType |-> payload.chunkType,
                       chunksDrained |-> payload.chunksDrained,
                       baseTimeSec |-> baseTimeSec, startedAt |-> w.now, cbs |-> <<>>],
                   !.heap[ref].pending = slot,
                   !.obs.resent = @ \/ (payload.cids \cap w.obs.failedCids # {}),
                   !.obs.redrained = @ \/ (payload.cids \cap w.obs.drainedCids # {}),
                   !.obs.orphanRequest = @ \/ (w.sessions[s.id] # ref)],
          p |-> slot]
  : w \in {world}})

\* drainToA2F up to the point where the request is in flight.  [w, p]: p is the
\* promise returned (a request slot), 0 for null.
drainToA2F(world, ref, force) ==
  The({
    LET s == w.heap[ref]
        interval == Max2(MIN_DRAIN_INTERVAL_MS, DEFAULT_DRAIN_INTERVAL_MS)
    IN
    IF ~force /\ w.now - s.lastDrainAt < interval THEN [w |-> w, p |-> 0]
    ELSE IF s.pending # 0 THEN
      [w |-> IF force
               THEN [w EXCEPT !.requests[s.pending].cbs =
                                Append(@, [kind |-> "redrain", obj |-> ref, sid |-> s.id])]
               ELSE w,
       p |-> s.pending]
    ELSE
      The({
      IF ~payload.ok THEN
        [w |-> IF force THEN [w EXCEPT !.heap[ref].lastDrainAt = w.now] ELSE w, p |-> 0]
      ELSE requestBlendshapes([w EXCEPT !.heap[ref].lastDrainRequestedAt = w.now],
                              ref, "drain", force, payload, s.framesCoveredSec)
      : payload \in {encodeNewAudioForDrain(
                        s, IF force THEN 0 ELSE DEFAULT_DRAIN_TARGET_SEC, force)}})
  : w \in {world}})

finalizeSession(world, id) ==
  The({
    LET ref == w.sessions[id] IN
    IF ref = 0 THEN w
    ELSE IF w.heap[ref].pending # 0 THEN w
    ELSE
      The({
      LET s == w1.heap[ref]
          hasPcmChunks == Len(s.chunks) > 0
          hasFloatChunks == Len(s.floatChunks) > 0
          all == IF hasPcmChunks THEN s.chunks ELSE s.floatChunks
          payload == [ok |-> TRUE, cids |-> {all[i].cid : i \in 1..Len(all)},
                      chunksDrained |-> Len(all),
                      chunkType |-> IF hasPcmChunks THEN "pcm16" ELSE "float32"]
          w2 == IF hasPcmChunks THEN [w1 EXCEPT !.heap[ref].chunks = <<>>]
                ELSE [w1 EXCEPT !.heap[ref].floatChunks = <<>>]
          w3 == [w2 EXCEPT !.heap[ref].sourceType = "none"]
      IN IF ~hasPcmChunks /\ ~hasFloatChunks THEN w1
         ELSE requestBlendshapes(w3, ref, "final", FALSE, payload, 0).w
      : w1 \in {clearFallbackTimer(w, id)}})
  : w \in {world}})

\* finalizeAfterDrain, the closure of the stop handler and of the fallback timer
finalizeAfterDrain(world, id) ==
  The({ IF w1.activeResponseId = id THEN [w1 EXCEPT !.activeResponseId = NoId] ELSE w1
      : w1 \in {finalizeSession(world, id)}})

\* drainPromise.finally(finalizeAfterDrain), or the call at once when there is no promise
ThenFinalize(drainPromise, id) ==
  The({
    IF r.p # 0
      THEN [r.w EXCEPT !.requests[r.p].cbs = Append(@, [kind |-> "finalize", obj |-> 0, sid |-> id])]
      ELSE finalizeAfterDrain(r.w, id)
  : r \in {drainPromise}})


\* ------------------------------------------------------------------ storing a response
\* a handler that empties the queue when a response brings no usable frame
handleBlendshapeResponseClearing(world, ref, data, append, baseTimeSec) ==
  The({ The({ The({
    LET droppedLateCount == Len(applied.out) - Len(acceptedFrames)
        s2 == [applied.s EXCEPT !.lateDropsTotal = @ + droppedLateCount]
    IN
    IF Len(acceptedFrames) > 0 THEN
      [w EXCEPT !.heap[ref] = enqueueSessionFrames(
                                [s2 EXCEPT !.audioCompleted = FALSE], acceptedFrames),
                !.obs.orphanFrames = @ \/ (w.sessions[s2.id] # ref)]
    ELSE [w EXCEPT !.heap[ref] = [s2 EXCEPT !.frameQueue = <<>>]]
  : acceptedFrames \in
      {LET dropThreshold == applied.s.lastFrameTime - FRAME_LATE_DROP_SEC
       IN SelectSeq(applied.out, LAMBDA f : ~(f.time < dropThreshold))}})
  : applied \in {applyBlendshapeFrames(w.heap[ref], data, append, baseTimeSec)}})
  : w \in {world}})

handleBlendshapeResponse(world, ref, data, append, baseTimeSec) ==
  The({ The({ The({
    LET droppedLateCount == Len(applied.out) - Len(acceptedFrames)
        s2 == [applied.s EXCEPT !.lateDropsTotal = @ + droppedLateCount]
    IN
    IF Len(acceptedFrames) > 0 THEN
      [w EXCEPT !.heap[ref] = enqueueSessionFrames(
                                [s2 EXCEPT !.audioCompleted = FALSE], acceptedFrames),
                !.obs.orphanFrames = @ \/ (w.sessions[s2.id] # ref)]
    ELSE [w EXCEPT !.heap[ref] = s2]
  : acceptedFrames \in
      {LET dropThreshold == applied.s.lastFrameTime - FRAME_LATE_DROP_SEC
       IN SelectSeq(applied.out, LAMBDA f : ~(f.time < dropThreshold))}})
  : applied \in {applyBlendshapeFrames(w.heap[ref], data, append, baseTimeSec)}})
  : w \in {world}})

\* callbacks registered with promise.finally(...) on a request, in registration order
RECURSIVE RunCallbacks(_, _)
RunCallbacks(world, cbs) ==
  The({
    IF cbs = <<>> THEN w
    ELSE LET cb == Head(cbs)
             w1 == IF cb.kind = "redrain" THEN drainToA2F(w, cb.obj, TRUE).w
                   ELSE finalizeAfterDrain(w, cb.sid)
         IN RunCallbacks(w1, Tail(cbs))
  : w \in {world}})

DropFirst(seq, n) == IF n >= Len(seq) THEN <<>> ELSE SubSeq(seq, n + 1, Len(seq))

\* a .then that leaves the chunks of the request in the arrays
DrainSettledKeep(world, r, ok, data) ==
  The({
    LET ref == r.obj
        w1 == IF ok
                THEN [handleBlendshapeResponse(
                        w, ref, data, Len(w.heap[ref].frames) > 0, r.baseTimeSec)
                      EXCEPT !.obs.drainedCids = @ \cup r.cids]
                ELSE [w EXCEPT !.obs.failedCids = @ \cup r.cids]
        w2 == [w1 EXCEPT !.heap[ref].pending = 0, !.heap[ref].lastDrainAt = r.startedAt]
    IN drainToA2F(w2, ref, r.force).w
  : w \in {world}})

\* a .finally that does not call drainToA2F again
DrainSettledOnce(world, r, ok, data) ==
  The({
    LET ref == r.obj
        w1 == IF ok
                THEN [handleBlendshapeResponse(
                        w, ref, data, Len(w.heap[ref].frames) > 0, r.baseTimeSec)
                      EXCEPT !.heap[ref].floatChunks =
                               IF r.chunkType = "float32" THEN DropFirst(@, r.chunksDrained) ELSE @,
                             !.heap[ref].chunks =
                               IF r.chunkType = "float32" THEN @ ELSE DropFirst(@, r.chunksDrained),
                             !.obs.drainedCids = @ \cup r.cids]
                ELSE [w EXCEPT !.obs.failedCids = @ \cup r.cids]
    IN [w1 EXCEPT !.heap[ref].pending = 0, !.heap[ref].lastDrainAt = r.startedAt]
  : w \in {world}})

\* .then / .catch / .finally of the request built by drainToA2F
DrainSettled(world, r, ok, data) ==
  The({
    LET ref == r.obj
        w1 == IF ok
                THEN [handleBlendshapeResponse(
                        w, ref, data, Len(w.heap[ref].frames) > 0, r.baseTimeSec)
                      EXCEPT !.heap[ref].floatChunks =
                               IF r.chunkType = "float32" THEN DropFirst(@, r.chunksDrained) ELSE @,
                             !.heap[ref].chunks =
                               IF r.chunkType = "float32" THEN @ ELSE DropFirst(@, r.chunksDrained),
                             !.obs.drainedCids = @ \cup r.cids]
                ELSE [w EXCEPT !.obs.failedCids = @ \cup r.cids]
        w2 == [w1 EXCEPT !.heap[ref].pending = 0, !.heap[ref].lastDrainAt = r.startedAt]
    IN drainToA2F(w2, ref, r.force).w
  : w \in {world}})

\* .then / .catch / .finally of the request built by finalizeSession
FinalSettled(world, r, ok, data) ==
  The({
    LET ref == r.obj
        w1 == IF ok
                THEN handleBlendshapeResponse(w, ref, data, Len(w.heap[ref].frames) > 0,
                                              w.heap[ref].framesCoveredSec)
                ELSE [w EXCEPT !.sessions[r.sid] = 0, !.obs.failedCids = @ \cup r.cids]
    IN [w1 EXCEPT !.heap[ref].pending = 0]
  : w \in {world}})

RequestSettled(world, slot, ok, data) ==
  The({
    LET r == w.requests[slot]
        w0 == [w EXCEPT !.requests[slot] = FreeReq]
        w1 == IF r.kind = "drain" THEN DrainSettled(w0, r, ok, data)
              ELSE FinalSettled(w0, r, ok, data)
    IN RunCallbacks(w1, r.cbs)
  : w \in {world}})

\* ------------------------------------------------------------------ producers
\* kind: "delta" (an audio delta with a decodable payload, chunk = [cid, ms]),
\* "bare" (a delta type without usable audio), "start", "stop", "done".
handleAssistantEvent(world, kind, id, chunk) ==
  The({ The({ The({
    CASE kind = "delta" ->
           drainToA2F([w4 EXCEPT !.heap[ref].chunks = Append(@, chunk),
                                 !.heap[ref].sourceType = "pcm16",
                                 !.heap[ref].lastChunkAt = w.now], ref, FALSE).w
      [] kind = "stop" ->
           LET marked == [w4 EXCEPT !.timers[id].stale = w4.timers[id].armed,
                                    !.obs.cancelledUntil =
                                       IF w4.timers[id].armed
                                         THEN Max2(@, w4.timers[id].deadline) ELSE @]
               cleared == clearFallbackTimer(marked, id)
               done == [cleared EXCEPT !.heap[ref].audioCompleted = TRUE]
           IN ThenFinalize(drainToA2F(done, ref, TRUE), id)
      [] kind = "done" ->
           LET done == [w4 EXCEPT !.heap[ref].audioCompleted = TRUE]
           IN scheduleFallbackFinalization(drainToA2F(done, ref, TRUE).w, id)
      [] OTHER -> w4
  : w4 \in {LET w2 == IF kind \in {"delta", "bare", "start"}
                        THEN [w1 EXCEPT !.activeResponseId = id] ELSE w1
                w3 == IF kind = "start" THEN clearFallbackTimer(w2, id) ELSE w2
            IN IF kind \in {"delta", "bare", "start"}
                 THEN [w3 EXCEPT !.heap[w1.sessions[id]].audioCompleted = FALSE] ELSE w3},
    ref \in {w1.sessions[id]}})
  : w1 \in {getSession(w, id)}})
  : w \in {world}})

\* responseId = NoId stands for a call without a response id
ingestFloat32AudioChunk(world, responseId, chunk) ==
  The({
    LET targetId == IF responseId # NoId THEN responseId ELSE w.activeResponseId IN
    IF targetId = NoId THEN w
    ELSE
      The({
      LET ref == w1.sessions[targetId]
      IN IF w1.heap[ref].sourceType = "pcm16" THEN w1
         ELSE drainToA2F([w1 EXCEPT !.heap[ref].floatChunks = Append(@, chunk),
                                    !.heap[ref].sourceType = "float32",
                                    !.heap[ref].lastChunkAt = w.now], ref, FALSE).w
      : w1 \in {getSession(w, targetId)}})
  : w \in {world}})

\* the timer callback with a drain that is not forced
FallbackTimerCallbackUnforced(world, id) ==
  The({
    LET fired == [w EXCEPT !.timers[id] = NoTimer,
                           !.obs.staleFired = @ \/ w.timers[id].stale]
        ref == w.sessions[id]
    IN
    IF ref = 0 THEN fired
    ELSE IF w.now - fired.heap[ref].lastChunkAt < FALLBACK_SILENCE_TIMEOUT_MS
      THEN scheduleFallbackFinalization(fired, id)
    ELSE ThenFinalize(drainToA2F([fired EXCEPT !.obs.fallbackDrains = @ \cup {id}], ref, FALSE), id)
  : w \in {world}})

\* the callback of the timer set by scheduleFallbackFinalization
FallbackTimerCallback(world, id) ==
  The({
    LET fired == [w EXCEPT !.timers[id] = NoTimer,
                           !.obs.staleFired = @ \/ w.timers[id].stale]
        ref == w.sessions[id]
    IN
    IF ref = 0 THEN fired
    ELSE IF w.now - fired.heap[ref].lastChunkAt < FALLBACK_SILENCE_TIMEOUT_MS
      THEN scheduleFallbackFinalization(fired, id)
    ELSE ThenFinalize(drainToA2F([fired EXCEPT !.obs.fallbackDrains = @ \cup {id}], ref, TRUE), id)
  : w \in {world}})

\* ------------------------------------------------------------------ tick
\* pumpSessionFrames made a frame current: one frame left the queue that was not
\* counted as a late drop
Emitted(before, after) ==
  Len(before.frameQueue) - Len(after.frameQueue)
    = (after.lateDropsTotal - before.lateDropsTotal) + 1

\* the time of the frame a tick made current (0 when it made none)
EmittedTime(before, after) ==
  IF Emitted(before, after)
    THEN before.frameQueue[(after.lateDropsTotal - before.lateDropsTotal) + 1].time
    ELSE 0

\* the body of sessions.forEach in update(): [s, close]
\* an UpdateSession that closes an idle session at once
UpdateSessionNoGrace(sessionIn, ts, audioTime) ==
  The({
    IF pumped.audioCompleted /\ Len(pumped.frameQueue) = 0 THEN
      LET since == IF pumped.idleDrainSince = NoTime THEN ts ELSE pumped.idleDrainSince
      IN [s |-> [pumped EXCEPT !.currentValues = decayToNeutral(@), !.idleDrainSince = since],
          close |-> TRUE,
          values |-> pumped.currentValues,
          emitted |-> Emitted(sessionIn, pumped),
          frameTime |-> EmittedTime(sessionIn, pumped)]
    ELSE [s |-> [pumped EXCEPT !.idleDrainSince = NoTime], close |-> FALSE,
          values |-> pumped.currentValues,
          emitted |-> Emitted(sessionIn, pumped),
          frameTime |-> EmittedTime(sessionIn, pumped)]
  : pumped \in {IF audioTime # NoTime THEN pumpSessionFrames(sessionIn, audioTime)
                ELSE sessionIn}})

UpdateSession(sessionIn, ts, audioTime) ==
  The({
    IF pumped.audioCompleted /\ Len(pumped.frameQueue) = 0 THEN
      LET since == IF pumped.idleDrainSince = NoTime THEN ts ELSE pumped.idleDrainSince
          idleElapsed == IF since # 0 THEN ts - since ELSE 0
      IN [s |-> [pumped EXCEPT !.currentValues = decayToNeutral(@), !.idleDrainSince = since],
          close |-> idleElapsed > IDLE_CLOSE_MS,
          values |-> pumped.currentValues,
          emitted |-> Emitted(sessionIn, pumped),
          frameTime |-> EmittedTime(sessionIn, pumped)]
    ELSE [s |-> [pumped EXCEPT !.idleDrainSince = NoTime], close |-> FALSE,
          values |-> pumped.currentValues,
          emitted |-> Emitted(sessionIn, pumped),
          frameTime |-> EmittedTime(sessionIn, pumped)]
  : pumped \in {IF audioTime # NoTime THEN pumpSessionFrames(sessionIn, audioTime)
                ELSE sessionIn}})

\* values.forEach of update(): totals keeps, for every name, the largest clamped
\* positive weight over the sessions.
MergeTotals(maps) ==
  [name \in UNION {{k \in DOMAIN m : m[k] > 0} : m \in maps} |->
     CHOOSE v \in {clamp01(m[name]) : m \in {x \in maps : name \in DOMAIN x /\ x[name] > 0}} :
       \A m \in maps : (name \in DOMAIN m /\ m[name] > 0) => clamp01(m[name]) <= v]

update(world, audioTime) ==
  The({ The({
    LET Closed == {id \in DOMAIN res : res[id].close}
    IN [w EXCEPT
          !.heap = [i \in 1..Len(w.heap) |->
                      IF \E id \in DOMAIN res : w.sessions[id] = i
                        THEN res[CHOOSE id \in DOMAIN res : w.sessions[id] = i].s
                        ELSE w.heap[i]],
          !.sessions = [id \in Ids |-> IF id \in Closed THEN 0 ELSE w.sessions[id]],
          !.timers = [id \in Ids |-> IF id \in Closed THEN NoTimer ELSE w.timers[id]],
          !.totals = MergeTotals({res[id].values : id \in DOMAIN res}),
          !.obs.emittedAt =
             [id \in DOMAIN @ \cup {x \in DOMAIN res : res[x].emitted} |->
                IF id \in DOMAIN res /\ res[id].emitted THEN audioTime ELSE @[id]],
          !.obs.emittedFrame =
             [id \in DOMAIN @ \cup {x \in DOMAIN res : res[x].emitted} |->
                IF id \in DOMAIN res /\ res[id].emitted
                  THEN Max2(res[id].frameTime,
                            IF id \in DOMAIN @ THEN @[id] ELSE res[id].frameTime)
                  ELSE @[id]]]
  : res \in {[id \in {x \in Ids : w.sessions[x] # 0} |->
               UpdateSession(w.heap[w.sessions[id]], w.now, audioTime)]}})
  : w \in {world}})

\* ------------------------------------------------------------------ anchor, reset
\* a setPlaybackAnchor that leaves the queued frames as they were scheduled
setPlaybackAnchorOnly(world, responseId, audioStartSec, frameStartSec) ==
  IF responseId = NoId /\ world.activeResponseId = NoId THEN world
  ELSE
    The({ [w1 EXCEPT !.heap[w1.sessions[targetId]].anchor =
                        [set |-> TRUE, audio0 |-> audioStartSec, a2f0 |-> frameStartSec],
                     !.heap[w1.sessions[targetId]].lastEmitAudioTime =
                        audioStartSec - FRAME_MIN_SPACING_SEC]
        : targetId \in {IF responseId # NoId THEN responseId ELSE world.activeResponseId},
          w1 \in {getSession(world, IF responseId # NoId THEN responseId
                                    ELSE world.activeResponseId)}})

setPlaybackAnchor(world, responseId, audioStartSec, frameStartSec) ==
  The({
    LET targetId == IF responseId # NoId THEN responseId ELSE w.activeResponseId IN
    IF targetId = NoId THEN w
    ELSE
      The({
      LET ref == w1.sessions[targetId]
          anchored == [w1.heap[ref] EXCEPT
                         !.anchor = [set |-> TRUE, audio0 |-> audioStartSec, a2f0 |-> frameStartSec],
                         !.lastEmitAudioTime = audioStartSec - FRAME_MIN_SPACING_SEC]
      IN [w1 EXCEPT !.heap[ref] =
            [anchored EXCEPT !.frameQueue = RescheduleQueue(anchored, anchored.frameQueue)]]
      : w1 \in {getSession(w, targetId)}})
  : w \in {world}})

prepareForResponse(world, responseId) ==
  The({
    LET targetId == IF responseId # NoId THEN responseId ELSE w.activeResponseId IN
    IF targetId = NoId THEN w
    ELSE
      The({
      LET ref == w1.sessions[targetId]
      IN [w1 EXCEPT !.heap[ref] =
            [resetSessionPlayback(w1.heap[ref]) EXCEPT !.audioCompleted = FALSE],
                    !.obs.emittedAt = MapDelete(@, targetId),
                    !.obs.emittedFrame = MapDelete(@, targetId)]
      : w1 \in {getSession(w, targetId)}})
  : w \in {world}})


\* ------------------------------------------------------------------ inputs
RawFrame(t, v) == [timeCode |-> t, blendShapes |-> <<[name |-> jawOpen, value |-> v]>>]

EmptyBatch == [frames |-> <<>>]
SingleBatch == [frames |-> <<RawFrame(0, 500)>>]
PairBatch == [frames |-> <<RawFrame(0, 500), RawFrame(DEFAULT_FRAME_DELTA_SEC, 800)>>]
TieBatch == [frames |-> <<RawFrame(0, 500), RawFrame(0, 900)>>]
RegressBatch == [frames |-> <<RawFrame(DEFAULT_FRAME_DELTA_SEC, 800), RawFrame(0, 500)>>]

HalfSecondBatch == [frames |-> <<RawFrame(UNITS_PER_SEC \div 2, 500)>>]

\* raw keys of a response frame: spellings of jawOpen, and spellings of a name
\* that is not in the canonical table
JawOpenUpper == <<"J", "a", "w", "O", "p", "e", "n">>
jaw_open == <<"j", "a", "w", "_", "o", "p", "e", "n">>
RawKeys == {jawOpen, JawOpenUpper, jaw_open, <<"a", "b">>, <<"a", "B">>}

\* one frame at time code 0 whose blendShapes object has two keys, in this order
KeyPair(k1, v1, k2, v2) ==
  [frames |-> <<[timeCode |-> 0,
                 blendShapes |-> <<[name |-> k1, value |-> v1], [name |-> k2, value |-> v2]>>]>>]

KeyPairsOf(keys) ==
  {KeyPair(k1, v, k2, 1400 - v) : k1 \in keys, k2 \in keys, v \in {500, 900}}
    \ {KeyPair(k, v, k, 1400 - v) : k \in keys, v \in {500, 900}}

KeyPairBatches == KeyPairsOf(RawKeys)

\* one frame whose weights are outside [0, 1]: jawOpen 1.5 and ab -0.1
OutOfRangeBatch ==
  [frames |-> <<[timeCode |-> 0,
                 blendShapes |-> <<[name |-> jawOpen, value |-> 1500],
                                   [name |-> <<"a", "b">>, value |-> 0 - 100]>>]>>]

\* two frames with the same time code, the key spelled jawOpen and JawOpen
CaseTieBatch ==
  [frames |-> <<[timeCode |-> 0, blendShapes |-> <<[name |-> jawOpen, value |-> 500]>>],
                [timeCode |-> 0, blendShapes |-> <<[name |-> JawOpenUpper, value |-> 900]>>]>>]

\* audio-clock values of the ticks and of the anchors of SpecSchedule
TickTimes == {0, (3 * UNITS_PER_SEC) \div 100, (3 * UNITS_PER_SEC) \div 10,
              (104 * UNITS_PER_SEC) \div 10, (106 * UNITS_PER_SEC) \div 10}
AnchorTimes == {0, 10 * UNITS_PER_SEC}

ChunkMs == {DEFAULT_DRAIN_TARGET_SEC \div 2, DEFAULT_DRAIN_TARGET_SEC}
AudioTimes == {k * 2 * DEFAULT_FRAME_DELTA_SEC : k \in 0..MaxAudioK}

\* the audio clock of the animation loop: it advances with the wall clock up to
\* AudioCap, where every frame the budget allows is more than
\* FRAME_LATE_DROP_SEC late and leaves the queue at the next tick
AudioStep == (UNITS_PER_SEC \div 1000) * ClockStep
AudioCap == (MaxEvents * DEFAULT_FRAME_DELTA_SEC) + FRAME_LATE_DROP_SEC + AudioStep

\* ------------------------------------------------------------------ initial state
InitEnv == [events |-> 0, chunks |-> 0, ticked |-> FALSE, audio |-> 0]

InitObs == [failedCids |-> {}, resent |-> FALSE, drainedCids |-> {}, redrained |-> FALSE,
            emittedFrame |-> ZeroMap, orphanRequest |-> FALSE,
            orphanFrames |-> FALSE, staleFired |-> FALSE, fallbackDrains |-> {},
            stopSeen |-> {}, cancelledUntil |-> 0, emittedAt |-> ZeroMap]

NoProbe == [fn |-> "none", arg |-> <<>>, out |-> <<>>]

InitDriver(ids) ==
  /\ now = StartNow
  /\ sessions = [id \in ids |-> 0]
  /\ heap = <<>>
  /\ fallbackFinalizationTimers = [id \in ids |-> NoTimer]
  /\ requests = [i \in 1..MaxReqs |-> FreeReq]
  /\ activeResponseId = NoId
  /\ totals = ZeroMap
  /\ env = InitEnv
  /\ obs = InitObs

InitFor(ids) == InitDriver(ids) /\ probe = NoProbe

Init == InitFor({"r1"})

Stored(id) == sessions[id] # 0

\* a handler that calls getSession may create one more session object
CanGet(id) == sessions[id] # 0 \/ Len(heap) < MaxObjs

\* ------------------------------------------------------------------ actions
\* Time passes.  A due timer runs before the clock moves on.
AdvanceClock ==
  /\ env.events < MaxEvents
  /\ \A id \in Ids : fallbackFinalizationTimers[id].armed
                       => fallbackFinalizationTimers[id].deadline > now
  /\ now' = now + ClockStep
  /\ env' = [env EXCEPT !.events = @ + 1, !.ticked = FALSE]
  /\ UNCHANGED <<sessions, heap, fallbackFinalizationTimers, requests, activeResponseId,
                 totals, obs, probe>>

AudioDelta(id, ms) ==
  /\ env.events < MaxEvents
  /\ CanGet(id)
  /\ Commit(handleAssistantEvent(World, "delta", id, [cid |-> env.chunks + 1, ms |-> ms]))
  /\ env' = [env EXCEPT !.events = @ + 1, !.chunks = @ + 1]
  /\ UNCHANGED <<now, probe>>

FloatChunk(responseId, ms) ==
  /\ env.events < MaxEvents
  /\ LET targetId == IF responseId # NoId THEN responseId ELSE activeResponseId
     IN targetId # NoId => CanGet(targetId)
  /\ Commit(ingestFloat32AudioChunk(World, responseId, [cid |-> env.chunks + 1, ms |-> ms]))
  /\ env' = [env EXCEPT !.events = @ + 1, !.chunks = @ + 1]
  /\ UNCHANGED <<now, probe>>

LifecycleEvent(kind, id) ==
  /\ env.events < MaxEvents
  /\ CanGet(id)
  /\ LET w == handleAssistantEvent(World, kind, id, [cid |-> 0, ms |-> 0])
     IN Commit(IF kind = "stop" THEN [w EXCEPT !.obs.stopSeen = @ \cup {id}] ELSE w)
  /\ env' = [env EXCEPT !.events = @ + 1]
  /\ UNCHANGED <<now, probe>>

FallbackTimerFired(id) ==
  /\ fallbackFinalizationTimers[id].armed
  /\ now >= fallbackFinalizationTimers[id].deadline
  /\ Commit(FallbackTimerCallback(World, id))
  /\ UNCHANGED <<now, env, probe>>

RequestSucceeds(slot, data) ==
  /\ requests[slot].status = "outstanding"
  /\ Commit(RequestSettled(World, slot, TRUE, data))
  /\ UNCHANGED <<now, env, probe>>

RequestFails(slot) ==
  /\ requests[slot].status = "outstanding"
  /\ Commit(RequestSettled(World, slot, FALSE, EmptyBatch))
  /\ UNCHANGED <<now, env, probe>>

\* update({timestamp: now, audioTime}), at most once per clock value
Update(audioTime) ==
  /\ ~env.ticked
  /\ Commit(update(World, audioTime))
  /\ env' = [env EXCEPT !.ticked = TRUE]
  /\ UNCHANGED <<now, probe>>

SetPlaybackAnchor(id, audioStartSec, frameStartSec) ==
  /\ env.events < MaxEvents
  /\ CanGet(id)
  /\ Commit(setPlaybackAnchor(World, id, audioStartSec, frameStartSec))
  /\ env' = [env EXCEPT !.events = @ + 1]
  /\ UNCHANGED <<now, probe>>

\* The driver reads performance.now() only to compare it with stored instants,
\* so a lapse of d ms is the same as every stored instant moving back by d.
\* Instants at or below 0 are older than every threshold and stay at 0.
Earlier(t, d) == IF t = NoTime THEN NoTime ELSE Max2(0, t - d)

TimeShift(world, d) ==
  The({
    [w EXCEPT
       !.heap = [i \in 1..Len(w.heap) |->
                   [w.heap[i] EXCEPT !.lastChunkAt = Earlier(@, d),
                                     !.lastDrainAt = Earlier(@, d),
                                     !.lastDrainRequestedAt = Earlier(@, d),
                                     !.idleDrainSince = Earlier(@, d)]],
       !.requests = [i \in 1..MaxReqs |-> [w.requests[i] EXCEPT !.startedAt = Earlier(@, d)]],
       !.timers = [id \in Ids |-> [w.timers[id] EXCEPT !.deadline = Earlier(@, d)]]]
  : w \in {world}})

\* One pass of the animation loop: ClockStep ms later update() runs with the
\* audio clock advanced.
AnimationFrame ==
  /\ \A id \in Ids : fallbackFinalizationTimers[id].armed
                       => fallbackFinalizationTimers[id].deadline > now
  /\ Commit(update(TimeShift(World, ClockStep), Min2(env.audio + AudioStep, AudioCap)))
  /\ env' = [env EXCEPT !.audio = Min2(env.audio + AudioStep, AudioCap), !.ticked = ~@]
  /\ UNCHANGED <<now, probe>>

PrepareForResponse(id) ==
  /\ env.events < MaxEvents
  /\ CanGet(id)
  /\ Commit(prepareForResponse(World, id))
  /\ env' = [env EXCEPT !.events = @ + 1]
  /\ UNCHANGED <<now, probe>>

\* ------------------------------------------------------------------ specifications
\* Spec: ingestion, draining, completion signals, the fallback timer and idle
\* closure, with update() called without an audio clock.
Next ==
  \/ AdvanceClock
  \/ \E id \in Ids, ms \in ChunkMs : AudioDelta(id, ms)
  \/ \E id \in Ids : FloatChunk(id, DEFAULT_DRAIN_TARGET_SEC \div 2)
  \/ \E kind \in {"start", "stop", "done"}, id \in Ids : LifecycleEvent(kind, id)
  \/ \E id \in Ids : FallbackTimerFired(id)
  \/ \E slot \in 1..MaxReqs, data \in {EmptyBatch, SingleBatch} : RequestSucceeds(slot, data)
  \/ \E slot \in 1..MaxReqs : RequestFails(slot)
  \/ Update(NoTime)

Spec == Init /\ [][Next]_vars


\* SpecTimer: the completion signals and the fallback timer, with one chunk size
\* and without the float32 capture path.
NextTimer ==
  \/ AdvanceClock
  \/ \E id \in Ids : AudioDelta(id, DEFAULT_DRAIN_TARGET_SEC \div 2)
  \/ \E kind \in {"start", "stop", "done"}, id \in Ids : LifecycleEvent(kind, id)
  \/ \E id \in Ids : FallbackTimerFired(id)
  \/ \E slot \in 1..MaxReqs, data \in {EmptyBatch, SingleBatch} : RequestSucceeds(slot, data)
  \/ \E slot \in 1..MaxReqs : RequestFails(slot)
  \/ Update(NoTime)

SpecTimer == Init /\ [][NextTimer]_vars

\* SpecPlayback: responses with several frames, ties and regressions, the playback
\* anchor, update() with an audio clock, and the reset by prepareForResponse.
NextPlayback ==
  \/ AdvanceClock
  \/ \E id \in Ids : AudioDelta(id, DEFAULT_DRAIN_TARGET_SEC)
  \/ \E id \in Ids : LifecycleEvent("stop", id)
  \/ \E slot \in 1..MaxReqs,
        data \in {EmptyBatch, SingleBatch, PairBatch, TieBatch, RegressBatch} :
          RequestSucceeds(slot, data)
  \/ \E audioTime \in AudioTimes : Update(audioTime)
  \/ \E id \in Ids : SetPlaybackAnchor(id, 0, 0)
  \/ \E id \in Ids : PrepareForResponse(id)

SpecPlayback == Init /\ [][NextPlayback]_vars

\* SpecSchedule: the playback scheduler.  Anchors at audio time 0 and 10 s, frames
\* at local times 0, 1/30 s and 0.5 s, ticks before, at and after their play times.
NextSchedule ==
  \/ AdvanceClock
  \/ \E id \in Ids : AudioDelta(id, DEFAULT_DRAIN_TARGET_SEC)
  \/ \E id \in Ids : LifecycleEvent("stop", id)
  \/ \E slot \in 1..MaxReqs, data \in {SingleBatch, PairBatch, HalfSecondBatch} :
        RequestSucceeds(slot, data)
  \/ \E audioTime \in TickTimes : Update(audioTime)
  \/ \E id \in Ids, audioStartSec \in AnchorTimes : SetPlaybackAnchor(id, audioStartSec, 0)

SpecSchedule == Init /\ [][NextSchedule]_vars

\* SpecNames: responses whose frames spell their keys in several ways, to one
\* session, followed by ticks of update().
NextNames ==
  \/ AdvanceClock
  \/ \E id \in Ids : AudioDelta(id, DEFAULT_DRAIN_TARGET_SEC)
  \/ \E id \in Ids : LifecycleEvent("stop", id)
  \/ \E slot \in 1..MaxReqs,
        data \in KeyPairsOf({jaw_open, <<"a", "b">>, <<"a", "B">>}) \cup {CaseTieBatch} :
          RequestSucceeds(slot, data)
  \/ \E audioTime \in AudioTimes : Update(audioTime)
  \/ \E id \in Ids : SetPlaybackAnchor(id, 0, 0)

SpecNames == Init /\ [][NextNames]_vars

\* SpecNormalizer: the response normalizer as a function.  The response is
\* drawn from the batches above; Respond delivers it to a session that has no
\* frames, RespondAgain delivers a second one to the session that came out, as
\* the .then of a final request does.  probe.out is the session afterwards and
\* the base time the response was given.
FreshWorld == [World EXCEPT !.heap = <<createSession("r1")>>, !.sessions = [id \in Ids |-> 1]]

Responded(session, data) ==
  [session |-> handleBlendshapeResponse(
                 [FreshWorld EXCEPT !.heap[1] = session], 1, data,
                 Len(session.frames) > 0, session.framesCoveredSec).heap[1],
   baseTimeSec |-> session.framesCoveredSec,
   append |-> Len(session.frames) > 0]

InitNormalizer ==
  /\ InitDriver({"r1"})
  /\ probe \in {[fn |-> "response", arg |-> data, out |-> <<>>] :
                  data \in KeyPairBatches \cup {CaseTieBatch}}

Respond ==
  /\ probe.fn = "response"
  /\ probe' = [fn |-> "handleBlendshapeResponse", arg |-> probe.arg,
               out |-> Responded(createSession("r1"), probe.arg)]
  /\ UNCHANGED <<now, sessions, heap, fallbackFinalizationTimers, requests,
                 activeResponseId, totals, env, obs>>

RespondAgain(data) ==
  /\ probe.fn = "handleBlendshapeResponse"
  /\ ~probe.out.append
  /\ probe' = [fn |-> "handleBlendshapeResponse", arg |-> data,
               out |-> Responded(probe.out.session, data)]
  /\ UNCHANGED <<now, sessions, heap, fallbackFinalizationTimers, requests,
                 activeResponseId, totals, env, obs>>

NextNormalizer ==
  \/ Respond
  \/ \E data \in KeyPairBatches \cup {CaseTieBatch} : RespondAgain(data)

SpecNormalizer == InitNormalizer /\ [][NextNormalizer]_vars

\* SpecCanon: canonicalizeBlendshapeName as a function.  The raw key is drawn
\* from the strings of at most MaxKeyLen characters over letters of both cases,
\* a digit, the separators and a character that is none of these, and from
\* spellings of jawOpen; Canonicalize applies the function to the key,
\* CanonicalizeAgain applies it to the result.
KeyAlphabet == {"a", "B", "o", "1", "_", "-", " ", "."}
RawKeyStrings ==
  UNION {[1..n -> KeyAlphabet] : n \in 0..MaxKeyLen}
    \cup {jawOpen, JawOpenUpper, jaw_open, <<" ">> \o jaw_open \o <<" ">>,
          <<"j", "a", "w", " ", "o", "p", "e", "n">>, <<"J", "A", "W", "-", "O", "P", "E", "N">>}

InitCanon ==
  /\ InitDriver({"r1"})
  /\ probe \in {[fn |-> "key", arg |-> name, out |-> <<>>] : name \in RawKeyStrings}

Canonicalize ==
  /\ probe.fn = "key"
  /\ probe' = [fn |-> "canonicalizeBlendshapeName", arg |-> probe.arg,
               out |-> canonicalizeBlendshapeName(probe.arg)]
  /\ UNCHANGED <<now, sessions, heap, fallbackFinalizationTimers, requests,
                 activeResponseId, totals, env, obs>>

CanonicalizeAgain ==
  /\ probe.fn = "canonicalizeBlendshapeName"
  /\ probe' = [fn |-> "canonicalizeBlendshapeName twice", arg |-> probe.arg,
               out |-> canonicalizeBlendshapeName(probe.out)]
  /\ UNCHANGED <<now, sessions, heap, fallbackFinalizationTimers, requests,
                 activeResponseId, totals, env, obs>>

NextCanon ==
  \/ Canonicalize
  \/ CanonicalizeAgain

SpecCanon == InitCanon /\ [][NextCanon]_vars

\* SpecMerge: two sessions at once, responses with weights inside and outside
\* [0, 1], emission, completion and idle decay; update() merges the current
\* weights of both sessions.
InitMerge == InitFor({"r1", "r2"})

NextMerge ==
  \/ AdvanceClock
  \/ \E id \in Ids : AudioDelta(id, DEFAULT_DRAIN_TARGET_SEC)
  \/ \E id \in Ids : LifecycleEvent("stop", id)
  \/ \E slot \in 1..MaxReqs, data \in {SingleBatch, OutOfRangeBatch} : RequestSucceeds(slot, data)
  \/ Update(0)
  \/ \E id \in Ids : SetPlaybackAnchor(id, 0, 0)

SpecMerge == InitMerge /\ [][NextMerge]_vars

\* SpecLive: the producer sends audio and then its completion signal once, the
\* host anchors playback at audio time 0, the animation loop never stops and
\* every request is answered.
NextLive ==
  \/ \E id \in Ids : id \notin obs.stopSeen /\ AudioDelta(id, DEFAULT_DRAIN_TARGET_SEC)
  \/ \E id \in Ids : id \notin obs.stopSeen /\ LifecycleEvent("stop", id)
  \/ \E id \in Ids : /\ Stored(id)
                     /\ ~heap[sessions[id]].anchor.set
                     /\ SetPlaybackAnchor(id, 0, 0)
  \/ \E slot \in 1..MaxReqs, data \in {EmptyBatch, SingleBatch} : RequestSucceeds(slot, data)
  \/ AnimationFrame

SpecLive ==
  /\ Init
  /\ [][NextLive]_vars
  /\ WF_vars(AnimationFrame)
  /\ WF_vars(\E slot \in 1..MaxReqs, data \in {EmptyBatch, SingleBatch} :
               RequestSucceeds(slot, data))

\* SpecPayload: audio deltas with their base64 payloads.  A payload is a string
\* over PayloadAlphabet; <<>> stands for an event that carries no audio string.
\* The data: prefix of normalizeBase64 is left out (no payload here has a comma).
Base64Alphabet == {"A", "+", "/"}
BASE64_LOOKUP_TABLE == [c \in Base64Alphabet |-> CASE c = "A" -> 0 [] c = "+" -> 62 [] c = "/" -> 63]
NoString == [ok |-> FALSE, s |-> <<>>]

UrlSafeChar(c) == CASE c = "-" -> "+" [] c = "_" -> "/" [] OTHER -> c
PadTo4(s) == s \o [i \in 1..((4 - (Len(s) % 4)) % 4) |-> "="]

\* normalizeBase64 with the remainder-1 case padded like the others
normalizeBase64Padded(b64) ==
  LET s0 == trim(b64)
      s1 == SelectSeq(s0, LAMBDA c : c \notin Whitespace)
      s2 == [i \in 1..Len(s1) |-> UrlSafeChar(s1[i])]
      s3 == SelectSeq(s2, LAMBDA c : c \in Base64Alphabet \cup {"="})
  IN IF s0 = <<>> THEN NoString ELSE [ok |-> s3 # <<>>, s |-> PadTo4(s3)]

normalizeBase64(b64) ==
  LET s0 == trim(b64)
      s1 == SelectSeq(s0, LAMBDA c : c \notin Whitespace)
      s2 == [i \in 1..Len(s1) |-> UrlSafeChar(s1[i])]
      s3 == SelectSeq(s2, LAMBDA c : c \in Base64Alphabet \cup {"="})
  IN IF s0 = <<>> THEN NoString
     ELSE IF Len(s3) % 4 = 1 THEN NoString
     ELSE [ok |-> s3 # <<>>, s |-> PadTo4(s3)]

Pow2(n) == IF n = 0 THEN 1 ELSE IF n = 2 THEN 4 ELSE IF n = 4 THEN 16 ELSE 64

RECURSIVE DecodeFrom(_, _, _, _, _, _)
DecodeFrom(s, i, buf, bits, out, outLen) ==
  IF i > Len(s) \/ s[i] = "=" THEN out
  ELSE IF s[i] \notin DOMAIN BASE64_LOOKUP_TABLE THEN DecodeFrom(s, i + 1, buf, bits, out, outLen)
  ELSE LET b == (buf * 64) + BASE64_LOOKUP_TABLE[s[i]]
           n == bits + 6
       IN IF n < 8 THEN DecodeFrom(s, i + 1, b, n, out, outLen)
          ELSE IF Len(out) >= outLen THEN out
          ELSE DecodeFrom(s, i + 1, b % Pow2(n - 8), n - 8,
                          Append(out, (b \div Pow2(n - 8)) % 256), outLen)

EndsWith(s, k) == Len(s) >= k /\ \A i \in (Len(s) - k + 1)..Len(s) : s[i] = "="

\* the decoded bytes
decodeNormalizedBase64ToUint8Array(s) ==
  LET full == (Len(s) \div 4) * 3
      outLen == IF EndsWith(s, 2) THEN full - 2 ELSE IF EndsWith(s, 1) THEN full - 1 ELSE full
  IN DecodeFrom(s, 1, 0, 0, <<>>, Max2(0, outLen))

\* pickAudioString trims and rejects the empty string before normalizeBase64 runs
getAudioEventDetails(payload) ==
  IF trim(payload) = <<>> THEN NoString ELSE normalizeBase64(trim(payload))

\* one decoded byte of a model payload stands for half a drain target of audio
PayloadMs(bytes) == Len(bytes) * (DEFAULT_DRAIN_TARGET_SEC \div 2)

\* handleAssistantEvent for a delta type event with the given payload
handleAudioDelta(world, id, payload, cid) ==
  The({ IF chunk = <<>>
          THEN handleAssistantEvent(world, "bare", id, [cid |-> 0, ms |-> 0])
          ELSE handleAssistantEvent(world, "delta", id, [cid |-> cid, ms |-> PayloadMs(chunk)])
  : chunk \in {The({ IF details.ok THEN decodeNormalizedBase64ToUint8Array(details.s) ELSE <<>>
                     : details \in {getAudioEventDetails(payload)}})}})

PayloadAlphabet == {"A", "_", "=", "!", " "}
Payloads ==
  {<<>>} \cup {<<a>> : a \in PayloadAlphabet} \cup {<<a, b>> : a, b \in PayloadAlphabet}
    \cup {<<"A", "!", "A">>, <<"A", "A", "=", "A">>, <<"A", "_", "-", "A">>,
          <<"A", "A", "A", "A", "A">>, <<"A", "A", "A", "A", "=">>}

AudioPayload(id, payload) ==
  /\ env.events < MaxEvents
  /\ CanGet(id)
  /\ Commit(handleAudioDelta(World, id, payload, env.chunks + 1))
  /\ env' = [env EXCEPT !.events = @ + 1,
                        !.chunks = IF \E i \in 1..Len(heap') : \E k \in 1..Len(heap'[i].chunks) :
                                        heap'[i].chunks[k].cid = env.chunks + 1
                                     THEN @ + 1 ELSE @]
  /\ probe' = [fn |-> "payload", arg |-> payload, out |-> <<env.events + 1>>]
  /\ UNCHANGED now

NextPayload ==
  \/ AdvanceClock
  \/ \E id \in Ids, payload \in Payloads : AudioPayload(id, payload)
  \/ \E slot \in 1..MaxReqs : RequestSucceeds(slot, SingleBatch)

SpecPayload == Init /\ [][NextPayload]_vars


\* SpecResample: the audio normalizer as a function.  A float sample is an integer
\* count of 1/Q15; NonFinite stands for NaN and the infinities, as a sample and
\* as a rate.  A resampled sample is a count of 1/(Q15 * 16000), which holds every
\* interpolated value exactly; the rounding to float32 is left out.
Q15 == 32768
PCM16_TARGET_SAMPLE_RATE == 16000
NonFinite == Q15 * Q15
IsFiniteNumber(x) == x # NonFinite
TruncDiv(a, b) == IF a >= 0 THEN a \div b ELSE 0 - ((0 - a) \div b)

Int16Of(lo, hi) == IF hi >= 128 THEN (lo + (256 * hi)) - 65536 ELSE lo + (256 * hi)

pcm16BytesToFloat32Mono(bytes) ==
  IF Len(bytes) < 2 THEN <<>>
  ELSE [i \in 1..(Len(bytes) \div 2) |-> Int16Of(bytes[(2 * i) - 1], bytes[2 * i])]

\* Math.round(source.length * ratio): the nearest integer, a half going up; where
\* the exact product is a half the double product may fall on either side
RoundedLengths(n, sourceRate) ==
  LET twice == (2 * n * PCM16_TARGET_SAMPLE_RATE) + sourceRate
      up == twice \div (2 * sourceRate)
  IN IF twice % (2 * sourceRate) = 0 THEN {up - 1, up} ELSE {up}

Passes(source, sourceRate) ==
  ~IsFiniteNumber(sourceRate) \/ sourceRate <= 0 \/ sourceRate = PCM16_TARGET_SAMPLE_RATE

\* the lengths resampleFloat32Mono(source, sourceRate, 16000) can produce
TargetLengths(source, sourceRate) ==
  IF source = <<>> THEN {0}
  ELSE IF Passes(source, sourceRate) THEN {Len(source)}
  ELSE {Max2(1, r) : r \in RoundedLengths(Len(source), sourceRate)}

Interpolate(source, sourceRate, i) ==
  LET position == i * sourceRate
      leftIndex == position \div PCM16_TARGET_SAMPLE_RATE
      rightIndex == Min2(Len(source) - 1, leftIndex + 1)
      frac == position % PCM16_TARGET_SAMPLE_RATE
      left == IF leftIndex < Len(source) THEN source[leftIndex + 1] ELSE 0
      right == source[rightIndex + 1]
  IN IF ~IsFiniteNumber(left) \/ ~IsFiniteNumber(right) THEN NonFinite
     ELSE (left * PCM16_TARGET_SAMPLE_RATE) + ((right - left) * frac)

\* resampleFloat32Mono(source, sourceRate, PCM16_TARGET_SAMPLE_RATE), with the
\* length it rounded to
resampleFloat32Mono(source, sourceRate, targetLength) ==
  IF source = <<>> THEN <<>>
  ELSE IF Passes(source, sourceRate)
    THEN [i \in 1..Len(source) |->
            IF IsFiniteNumber(source[i]) THEN source[i] * PCM16_TARGET_SAMPLE_RATE ELSE NonFinite]
  ELSE [i \in 1..targetLength |-> Interpolate(source, sourceRate, i - 1)]

\* (s * 32767) | 0 for s >= 0 given as c / (Q15 * 16000): the floor of
\* c / 16000 - c / (Q15 * 16000), computed without leaving 32 bits
TimesMaxInt16(c) ==
  IF (c % PCM16_TARGET_SAMPLE_RATE) * Q15 >= c
    THEN c \div PCM16_TARGET_SAMPLE_RATE ELSE (c \div PCM16_TARGET_SAMPLE_RATE) - 1

\* one sample without the clamp to [-1, 1]
ToPcm16Unclamped(s) ==
  IF ~IsFiniteNumber(s) THEN 0
  ELSE IF s < 0 THEN TruncDiv(s, PCM16_TARGET_SAMPLE_RATE)
  ELSE TimesMaxInt16(s)

ToPcm16(s) ==
  IF ~IsFiniteNumber(s) THEN 0
  ELSE The({ IF c < 0 THEN TruncDiv(c, PCM16_TARGET_SAMPLE_RATE)
             ELSE TimesMaxInt16(c)
       : c \in {Max2(0 - (Q15 * PCM16_TARGET_SAMPLE_RATE),
                     Min2(Q15 * PCM16_TARGET_SAMPLE_RATE, s))}})

\* the PCM16 samples of the result
float32ToPcm16Mono16k(float32Array) == [i \in 1..Len(float32Array) |-> ToPcm16(float32Array[i])]

\* ensurePcm16Mono16k(bytes, sampleRate).bytes, as samples
ensurePcm16Mono16k(bytes, sampleRate, targetLength) ==
  LET sourceRate == IF IsFiniteNumber(sampleRate) /\ sampleRate > 0
                      THEN sampleRate ELSE PCM16_TARGET_SAMPLE_RATE
  IN IF bytes = <<>> THEN <<>>
     ELSE float32ToPcm16Mono16k(
            resampleFloat32Mono(pcm16BytesToFloat32Mono(bytes), sourceRate, targetLength))

EnsureLengths(bytes, sampleRate) ==
  TargetLengths(pcm16BytesToFloat32Mono(bytes),
                IF IsFiniteNumber(sampleRate) /\ sampleRate > 0
                  THEN sampleRate ELSE PCM16_TARGET_SAMPLE_RATE)

MaxSamples == 3
SampleRates == {0, 8000, 16000, 32000, 44100, 48000, 96000, NonFinite}
SampleValues == {0 - (2 * Q15), 0 - Q15, 0, Q15 \div 2, Q15, NonFinite}
ByteValues == {0, 128, 255}
SeqsUpTo(S, n) == UNION {[1..k -> S] : k \in 0..n}
\* 0.3 s of audio at 48 kHz
ScenarioABuffer == [i \in 1..14400 |-> IF i % 2 = 0 THEN Q15 \div 2 ELSE 0 - Q15]

InitResample ==
  /\ InitDriver({"r1"})
  /\ probe \in
       {[fn |-> "float32", arg |-> [kind |-> "float32", data |-> s, rate |-> r], out |-> <<>>] :
          s \in SeqsUpTo(SampleValues, MaxSamples), r \in SampleRates}
       \cup {[fn |-> "float32", arg |-> [kind |-> "float32", data |-> ScenarioABuffer, rate |-> 48000],
               out |-> <<>>]}
       \cup {[fn |-> "pcm16", arg |-> [kind |-> "pcm16", data |-> b, rate |-> r], out |-> <<>>] :
          b \in SeqsUpTo(ByteValues, MaxSamples + 1), r \in SampleRates}

\* the capture path: resampleFloat32Mono, then float32ToPcm16Mono16k
NormalizeFloat32 ==
  /\ probe.fn = "float32"
  /\ \E n \in TargetLengths(probe.arg.data, probe.arg.rate) :
       probe' = [fn |-> "normalized", arg |-> probe.arg,
                 out |-> float32ToPcm16Mono16k(
                           resampleFloat32Mono(probe.arg.data, probe.arg.rate, n))]
  /\ UNCHANGED <<now, sessions, heap, fallbackFinalizationTimers, requests,
                 activeResponseId, totals, env, obs>>

NormalizePcm16 ==
  /\ probe.fn = "pcm16"
  /\ \E n \in EnsureLengths(probe.arg.data, probe.arg.rate) :
       probe' = [fn |-> "normalized", arg |-> probe.arg,
                 out |-> ensurePcm16Mono16k(probe.arg.data, probe.arg.rate, n)]
  /\ UNCHANGED <<now, sessions, heap, fallbackFinalizationTimers, requests,
                 activeResponseId, totals, env, obs>>

NextResample == NormalizeFloat32 \/ NormalizePcm16

SpecResample == InitResample /\ [][NextResample]_vars


\* SpecTimes: the time assignment of applyBlendshapeFrames as a function.  A
\* batch has up to MaxFrames frames; frame i of the response carries the weight
\* 100 * i, and its time code is missing, negative, zero, half of 1e-4 s, one or
\* two frame steps.  probe.out is the list of normalized frames.
MaxFrames == 3
TimeCodes == {NoTime, 0 - DEFAULT_FRAME_DELTA_SEC, 0, MERGE_EPSILON \div 2,
              DEFAULT_FRAME_DELTA_SEC, 2 * DEFAULT_FRAME_DELTA_SEC}
TimeBatches ==
  {[frames |-> [i \in 1..Len(tc) |-> RawFrame(tc[i], 100 * i)]] :
     tc \in UNION {[1..n -> TimeCodes] : n \in 0..MaxFrames}}

InitTimes ==
  /\ InitDriver({"r1"})
  /\ probe \in {[fn |-> "frames", arg |-> data, out |-> <<>>] :
                  data \in {b \in TimeBatches : b.frames # <<>>}}

\* the first response of a session
NormalizeFirst ==
  /\ probe.fn = "frames"
  /\ probe' = [fn |-> "applyBlendshapeFrames", arg |-> probe.arg,
               out |-> applyBlendshapeFrames(createSession("r1"), probe.arg, FALSE, 0).out]
  /\ UNCHANGED <<now, sessions, heap, fallbackFinalizationTimers, requests,
                 activeResponseId, totals, env, obs>>

\* a later response, appended at the base time of its request
NormalizeAppended(baseTimeSec) ==
  /\ probe.fn = "frames"
  /\ probe' = [fn |-> "applyBlendshapeFrames", arg |-> probe.arg,
               out |-> [i \in 1..Len(probe.arg.frames) |->
                          [ applyBlendshapeFrames(
                              [createSession("r1") EXCEPT !.framesCoveredSec = baseTimeSec],
                              probe.arg, TRUE, baseTimeSec).out[i]
                            EXCEPT !.time = @ - baseTimeSec ]]]
  /\ UNCHANGED <<now, sessions, heap, fallbackFinalizationTimers, requests,
                 activeResponseId, totals, env, obs>>

NextTimes ==
  \/ NormalizeFirst
  \/ NormalizeAppended(UNITS_PER_SEC)

SpecTimes == InitTimes /\ [][NextTimes]_vars


\* SpecLate: the requests of one session answered with single frames whose time
\* codes lie 4/30 s after and 2/30 s and 5/30 s before the base time of their
\* request, the end of the audio, the playback anchor and update() with an audio
\* clock.
LateTimeCodes == {4 * DEFAULT_FRAME_DELTA_SEC, 0 - (2 * DEFAULT_FRAME_DELTA_SEC),
                  0 - (5 * DEFAULT_FRAME_DELTA_SEC)}
LateBatches == {[frames |-> <<RawFrame(t, 500)>>] : t \in LateTimeCodes}

NextLate ==
  \/ AdvanceClock
  \/ \E id \in Ids : AudioDelta(id, DEFAULT_DRAIN_TARGET_SEC \div 2)
  \/ \E id \in Ids : LifecycleEvent("stop", id)
  \/ \E slot \in 1..MaxReqs, data \in LateBatches : RequestSucceeds(slot, data)
  \/ \E audioTime \in AudioTimes : Update(audioTime)
  \/ \E id \in Ids : SetPlaybackAnchor(id, 0, 0)

SpecLate == Init /\ [][NextLate]_vars


\* SpecCoverage: framesCoveredSec over two responses of one session, each stored
\* with the base time the session had when its request was issued.  The first
\* batch is any of TimeBatches, the second has at most two frames or none.
StoreFirst ==
  /\ probe.fn = "frames"
  /\ probe' = [fn |-> "handleBlendshapeResponse", arg |-> probe.arg,
               out |-> Responded(createSession("r1"), probe.arg)]
  /\ UNCHANGED <<now, sessions, heap, fallbackFinalizationTimers, requests,
                 activeResponseId, totals, env, obs>>

StoreNext(data) ==
  /\ probe.fn = "handleBlendshapeResponse"
  /\ ~probe.out.append
  /\ probe' = [fn |-> "handleBlendshapeResponse", arg |-> data,
               out |-> Responded(probe.out.session, data)]
  /\ UNCHANGED <<now, sessions, heap, fallbackFinalizationTimers, requests,
                 activeResponseId, totals, env, obs>>

NextCoverage ==
  \/ StoreFirst
  \/ \E data \in {b \in TimeBatches : Len(b.frames) <= 2} : StoreNext(data)

SpecCoverage == InitTimes /\ [][NextCoverage]_vars


\* SpecUnusable: SpecLate with responses that hold no frames at all.
UnusableBatches == LateBatches \cup {EmptyBatch}

NextUnusable ==
  \/ AdvanceClock
  \/ \E id \in Ids : AudioDelta(id, DEFAULT_DRAIN_TARGET_SEC \div 2)
  \/ \E id \in Ids : LifecycleEvent("stop", id)
  \/ \E slot \in 1..MaxReqs, data \in UnusableBatches : RequestSucceeds(slot, data)
  \/ \E audioTime \in AudioTimes : Update(audioTime)
  \/ \E id \in Ids : SetPlaybackAnchor(id, 0, 0)

SpecUnusable == Init /\ [][NextUnusable]_vars


\* SpecDrainOut: SpecLive with audio deltas of half the drain target, so that
\* audio waits in the backlog until enough has accumulated or a drain is forced.
NextDrainOut ==
  \/ \E id \in Ids : id \notin obs.stopSeen /\ AudioDelta(id, DEFAULT_DRAIN_TARGET_SEC \div 2)
  \/ \E id \in Ids : id \notin obs.stopSeen /\ LifecycleEvent("stop", id)
  \/ \E slot \in 1..MaxReqs, data \in {EmptyBatch, SingleBatch} : RequestSucceeds(slot, data)
  \/ AnimationFrame

SpecDrainOut ==
  /\ Init
  /\ [][NextDrainOut]_vars
  /\ WF_vars(AnimationFrame)
  /\ WF_vars(\E slot \in 1..MaxReqs, data \in {EmptyBatch, SingleBatch} :
               RequestSucceeds(slot, data))

\* SpecPair: two sessions at once with audio deltas, float32 chunks for the
\* active response, the audio-done event, the fallback timer and responses.
NextPair ==
  \/ AdvanceClock
  \/ \E id \in Ids : AudioDelta(id, DEFAULT_DRAIN_TARGET_SEC)
  \/ FloatChunk(NoId, DEFAULT_DRAIN_TARGET_SEC)
  \/ \E id \in Ids : LifecycleEvent("done", id)
  \/ \E id \in Ids : FallbackTimerFired(id)
  \/ \E slot \in 1..MaxReqs : RequestSucceeds(slot, SingleBatch)

SpecPair == InitMerge /\ [][NextPair]_vars

\* SpecSetters: the drain setters called in any order with numbers inside,
\* outside and at the edges of their ranges and with values that are not finite
\* numbers.  Target durations are in units of 1e-4 s, arguments of
\* setDrainIntervalMs in tenths of a millisecond; probe.out holds
\* <<drainTargetSeconds, drainIntervalMs>>.
MIN_DRAIN_TARGET_SEC == 1100
MAX_DRAIN_TARGET_SEC == 4500
MAX_DRAIN_INTERVAL_MS == 200
TARGET_EPSILON == 10                          \* 1e-3 s

\* an unclamped setDrainTargetSeconds
setDrainTargetSecondsUnclamped(drainTargetSeconds, nextSeconds) ==
  IF ~IsFiniteNumber(nextSeconds) THEN drainTargetSeconds
  ELSE IF Abs(nextSeconds - drainTargetSeconds) > TARGET_EPSILON THEN nextSeconds
  ELSE drainTargetSeconds

setDrainTargetSeconds(drainTargetSeconds, nextSeconds) ==
  IF ~IsFiniteNumber(nextSeconds) THEN drainTargetSeconds
  ELSE LET clamped == Max2(MIN_DRAIN_TARGET_SEC, Min2(MAX_DRAIN_TARGET_SEC, nextSeconds))
       IN IF Abs(clamped - drainTargetSeconds) > TARGET_EPSILON THEN clamped
          ELSE drainTargetSeconds

\* Math.round of a number given in tenths
RoundTenths(x) == (x + 5) \div 10

setDrainIntervalMs(drainIntervalMs, nextMs) ==
  IF ~IsFiniteNumber(nextMs) THEN drainIntervalMs
  ELSE LET clamped == Max2(MIN_DRAIN_INTERVAL_MS,
                           Min2(MAX_DRAIN_INTERVAL_MS, RoundTenths(nextMs)))
       IN IF clamped # drainIntervalMs THEN clamped ELSE drainIntervalMs

\* the interval drainToA2F waits for, given the stored drainIntervalMs
EffectiveInterval(drainIntervalMs) ==
  Max2(MIN_DRAIN_INTERVAL_MS,
       IF drainIntervalMs # 0 THEN drainIntervalMs ELSE DEFAULT_DRAIN_INTERVAL_MS)

TargetArgs ==
  {NonFinite, 0 - MAX_DRAIN_TARGET_SEC, 0,
   MIN_DRAIN_TARGET_SEC - 1, MIN_DRAIN_TARGET_SEC, MIN_DRAIN_TARGET_SEC + TARGET_EPSILON,
   MIN_DRAIN_TARGET_SEC + TARGET_EPSILON + 1,
   MAX_DRAIN_TARGET_SEC - TARGET_EPSILON, MAX_DRAIN_TARGET_SEC, MAX_DRAIN_TARGET_SEC + 1,
   MAX_DRAIN_TARGET_SEC * MAX_DRAIN_TARGET_SEC}

IntervalArgs ==
  {NonFinite, 0 - (10 * MAX_DRAIN_INTERVAL_MS), 0 - 5, 0,
   (10 * MIN_DRAIN_INTERVAL_MS) - 6, (10 * MIN_DRAIN_INTERVAL_MS) + 4,
   (10 * MIN_DRAIN_INTERVAL_MS) + 5, 10 * DEFAULT_DRAIN_INTERVAL_MS,
   (10 * MAX_DRAIN_INTERVAL_MS) - 5, (10 * MAX_DRAIN_INTERVAL_MS) + 5,
   MAX_DRAIN_TARGET_SEC * MAX_DRAIN_TARGET_SEC}

InitSetters ==
  /\ InitDriver({"r1"})
  /\ probe = [fn |-> "setters", arg |-> <<>>,
              out |-> <<DEFAULT_DRAIN_TARGET_SEC * TARGET_EPSILON, DEFAULT_DRAIN_INTERVAL_MS>>]

SetDrainTargetSeconds(nextSeconds) ==
  /\ probe.fn = "setters"
  /\ probe' = [probe EXCEPT !.arg = <<"setDrainTargetSeconds", nextSeconds>>,
                            !.out[1] = setDrainTargetSeconds(@, nextSeconds)]
  /\ UNCHANGED <<now, sessions, heap, fallbackFinalizationTimers, requests,
                 activeResponseId, totals, env, obs>>

SetDrainIntervalMs(nextMs) ==
  /\ probe.fn = "setters"
  /\ probe' = [probe EXCEPT !.arg = <<"setDrainIntervalMs", nextMs>>,
                            !.out[2] = setDrainIntervalMs(@, nextMs)]
  /\ UNCHANGED <<now, sessions, heap, fallbackFinalizationTimers, requests,
                 activeResponseId, totals, env, obs>>

NextSetters ==
  \/ \E nextSeconds \in TargetArgs : SetDrainTargetSeconds(nextSeconds)
  \/ \E nextMs \in IntervalArgs : SetDrainIntervalMs(nextMs)

SpecSetters == InitSetters /\ [][NextSetters]_vars

\* ------------------------------------------------------------------ properties
Outstanding(id) == {slot \in 1..MaxReqs : requests[slot].status = "outstanding"
                                          /\ requests[slot].sid = id}

\* C1: for every response id at most one generation request issued for that
\* session is outstanding at any moment.
C1_SingleFlightPerId == \A id \in Ids : Cardinality(Outstanding(id)) <= 1

\* C2: when a request issued by drainToA2F fails, the session it was issued for
\* is no longer in the session store afterwards.
C2_FailedDrainRemovesSession ==
  [][\A slot \in 1..MaxReqs :
       (requests[slot].kind = "drain" /\ RequestFails(slot))
         => sessions'[requests[slot].sid] # requests[slot].obj]_vars

\* C3: audio that was part of a failed request is never part of a later request.
C3_NoRetry == ~obs.resent

\* C10: the completion of a request whose session has been removed from the
\* store delivers no frames to a callback and issues no further request.
C10_ClosedSessionIgnoresCompletion == ~obs.orphanFrames /\ ~obs.orphanRequest


QueueTimes(i) == [k \in 1..Len(heap[i].frameQueue) |-> heap[i].frameQueue[k].time]

\* C4: the completion of a request and the storing of its response leave the
\* current weights of every stored session unchanged.
C4_ResponseKeepsCurrentWeights ==
  [][\A slot \in 1..MaxReqs :
       (\E data \in {EmptyBatch, SingleBatch, PairBatch, TieBatch, RegressBatch} :
           RequestSucceeds(slot, data))
         => \A id \in Ids :
              (Stored(id) /\ sessions'[id] = sessions[id])
                => heap'[sessions[id]].currentValues = heap[sessions[id]].currentValues]_vars

\* C5: consecutive entries of every playback frame queue have strictly
\* increasing times, more than the merge epsilon apart.
C5_QueueStrictlyIncreasing ==
  \A i \in 1..Len(heap) : \A k \in 1..(Len(heap[i].frameQueue) - 1) :
     QueueTimes(i)[k + 1] - QueueTimes(i)[k] > MERGE_EPSILON

\* C6: every playback frame queue is sorted by non-decreasing time.
C6_QueueSorted ==
  \A i \in 1..Len(heap) : \A k \in 1..(Len(heap[i].frameQueue) - 1) :
     QueueTimes(i)[k] <= QueueTimes(i)[k + 1]


\* C6 witness: an anchored session whose queue still holds frames after a late
\* drop, that is after enqueue, re-anchoring, drop and emission have all acted.
C6_Witness ==
  \E i \in 1..Len(heap) :
    /\ Len(heap[i].frameQueue) >= 2
    /\ heap[i].anchor.set
    /\ heap[i].lateDropsTotal > 0

SilentFor(id) == now - heap[sessions[id]].lastChunkAt

\* the state after a forced drain of session object ref that had backlog s
ForcedDrainIssued(ref, s) ==
  \E slot \in 1..MaxReqs :
    /\ requests'[slot].status = "outstanding"
    /\ requests'[slot].obj = ref
    /\ heap'[ref].pending = slot
    /\ (s.pending = 0 /\ s.chunks # <<>>)
         => (/\ requests'[slot].force
             /\ requests'[slot].kind = "drain"
             /\ requests'[slot].startedAt = now
             /\ requests'[slot].cids = {s.chunks[1].cid})

C9_CancelledTimerNeverFires == ~obs.staleFired

\* C9 witness: a completion signal cancelled an armed timer and the clock has
\* passed the time at which that timer was due.
C9_Witness == obs.cancelledUntil > 0 /\ now >= obs.cancelledUntil


\* C7: once the completion signal was handled for a stored, anchored session,
\* with the animation loop running and every request answered, the session is
\* eventually removed from the store.
C7_EventuallyClosed ==
  \A id \in {"r1"} :
    (id \in obs.stopSeen /\ Stored(id) /\ heap[sessions[id]].anchor.set) ~> ~Stored(id)

\* C11: a session is never removed from the store while a request issued by
\* drainToA2F for it is still outstanding.
C11_NoRemovalWhileDraining ==
  [][\A id \in Ids :
       (Stored(id) /\ sessions'[id] # sessions[id])
         => ~\E slot \in 1..MaxReqs :
               /\ requests[slot].status = "outstanding"
               /\ requests[slot].kind = "drain"
               /\ requests[slot].obj = sessions[id]
               /\ requests'[slot].status = "outstanding"]_vars

\* A tick of update() at audio time t that leaves session id in the store.
Ticked(id) == Stored(id) /\ sessions'[id] = sessions[id]

\* C12: for an anchored session a tick at audio time t does not emit the head
\* frame while t + 5 ms < playAt, and emits it (it leaves the queue, is the map
\* the tick returns and becomes the current weights) when playAt <= t,
\* t - playAt <= 0.1 s and the minimum spacing has elapsed.  With the anchor at
\* 10 s and a frame at local time 0.5 s these are the ticks at 10.4 s and 10.6 s.
C12_TickEmitsDueHead ==
  [][\A t \in TickTimes : Update(t) =>
       \A id \in Ids :
         (Stored(id) /\ heap[sessions[id]].anchor.set /\ heap[sessions[id]].frameQueue # <<>>) =>
           LET S == heap[sessions[id]]
               head == S.frameQueue[1]
           IN /\ (t + ((5 * UNITS_PER_SEC) \div 1000) < head.playAt) =>
                    /\ Ticked(id)
                    /\ heap'[sessions[id]].frameQueue = S.frameQueue
                    /\ heap'[sessions[id]].currentValues = S.currentValues
                    /\ heap'[sessions[id]].lastEmitAudioTime = S.lastEmitAudioTime
              /\ ( /\ head.playAt <= t
                   /\ t - head.playAt <= UNITS_PER_SEC \div 10
                   /\ (S.lastEmitAudioTime = NegInf
                         \/ t - S.lastEmitAudioTime >= UNITS_PER_SEC \div 30) ) =>
                    /\ \A name \in DOMAIN head.values : /\ name \in DOMAIN totals'
                                                         /\ totals'[name] >= head.values[name]
                    /\ Ticked(id) =>
                          /\ heap'[sessions[id]].frameQueue = Tail(S.frameQueue)
                          /\ heap'[sessions[id]].lastEmitAudioTime = t
                          /\ heap'[sessions[id]].currentValues
                                \in {head.values, decayToNeutral(head.values)}]_vars

\* the frame at local time 0.5 s of a session anchored at 10 s was emitted by
\* the tick at 10.6 s
C12_Witness ==
  \E id \in Ids :
    /\ Stored(id)
    /\ heap[sessions[id]].anchor = [set |-> TRUE, audio0 |-> 10 * UNITS_PER_SEC, a2f0 |-> 0]
    /\ heap[sessions[id]].lastEmitAudioTime = (106 * UNITS_PER_SEC) \div 10
    /\ heap[sessions[id]].lastFrameTime = UNITS_PER_SEC \div 2
    /\ heap[sessions[id]].frameQueue = <<>>
    /\ totals = (jawOpen :> 500)

\* the number of frames at the front of queue that are more than 0.1 s late at t
LatePrefix(queue, t) ==
  CHOOSE n \in 0..Len(queue) :
    /\ \A k \in 1..n : t - queue[k].playAt > UNITS_PER_SEC \div 10
    /\ n < Len(queue) => ~(t - queue[n + 1].playAt > UNITS_PER_SEC \div 10)

\* C13: the frames at the front of an anchored session's queue that are more than
\* 0.1 s behind the audio clock of a tick leave the queue in that tick, the
\* late-drop counter goes up by one for each, the tick does not make any of them
\* current, and none of them has been the current weights before: a session that
\* never emitted a frame has no current weights after the drop.
C13_LateFramesDropped ==
  [][\A t \in TickTimes : Update(t) =>
       \A id \in Ids :
         (Ticked(id) /\ heap[sessions[id]].anchor.set) =>
           LET S == heap[sessions[id]]
               T == heap'[sessions[id]]
               n == LatePrefix(S.frameQueue, t)
           IN /\ T.lateDropsTotal = S.lateDropsTotal + n
              /\ T.frameQueue \in {DropFirst(S.frameQueue, n), DropFirst(S.frameQueue, n + 1)}
              /\ T.frameQueue = DropFirst(S.frameQueue, n)
                   => T.currentValues \in {S.currentValues, decayToNeutral(S.currentValues)}
              /\ T.frameQueue # DropFirst(S.frameQueue, n)
                   => T.currentValues \in {S.frameQueue[n + 1].values,
                                           decayToNeutral(S.frameQueue[n + 1].values)}
              /\ (n > 0 /\ id \notin DOMAIN obs'.emittedAt) => T.currentValues = ZeroMap]_vars

\* C14: in one tick at most one frame of a session becomes current, and a frame
\* emitted at audio time t, at or after the session's previous emission, comes at
\* least 1/30 s after it.
C14_MinSpacing ==
  [][\A t \in TickTimes : Update(t) =>
       \A id \in Ids :
         Ticked(id) =>
           LET S == heap[sessions[id]]
               T == heap'[sessions[id]]
           IN /\ Len(S.frameQueue) - Len(T.frameQueue)
                   <= (T.lateDropsTotal - S.lateDropsTotal) + 1
              /\ (Emitted(S, T) /\ id \in DOMAIN obs.emittedAt /\ t >= obs.emittedAt[id])
                   => t - obs.emittedAt[id] >= UNITS_PER_SEC \div 30]_vars

\* C15: in every session with an anchor, every queued frame has
\* playAt = anchor.audio0 + (frame.time - anchor.a2f0).
C15_QueueScheduled ==
  \A i \in 1..Len(heap) :
    heap[i].anchor.set =>
      \A k \in 1..Len(heap[i].frameQueue) :
        heap[i].frameQueue[k].playAt
          = heap[i].anchor.audio0 + (heap[i].frameQueue[k].time - heap[i].anchor.a2f0)

\* a session anchored at 10 s whose queue holds two frames
C15_Witness ==
  \E i \in 1..Len(heap) :
    /\ heap[i].anchor.set
    /\ heap[i].anchor.audio0 = 10 * UNITS_PER_SEC
    /\ Len(heap[i].frameQueue) >= 2

\* C16: when the two raw keys of a response frame canonicalize to the same name,
\* the frame is stored with that name at the larger of the two weights, whichever
\* key comes first in the frame.
C16_LargerWeightKept ==
  (probe.fn = "handleBlendshapeResponse" /\ probe.arg \in KeyPairBatches) =>
    LET e == probe.arg.frames[1].blendShapes
        name == canonicalizeBlendshapeName(e[1].name)
    IN name = canonicalizeBlendshapeName(e[2].name) =>
         \E i \in 1..Len(probe.out.session.frames) :
           /\ probe.out.session.frames[i].time = probe.out.baseTimeSec
           /\ probe.out.session.frames[i].values = (name :> Max2(e[1].value, e[2].value))

\* C16 for the frames whose first key carries the larger weight.
C16_FirstKeyLarger ==
  (probe.fn = "handleBlendshapeResponse" /\ probe.arg \in KeyPairBatches) =>
    LET e == probe.arg.frames[1].blendShapes
        name == canonicalizeBlendshapeName(e[1].name)
    IN (name = canonicalizeBlendshapeName(e[2].name) /\ e[1].value >= e[2].value) =>
         \E i \in 1..Len(probe.out.session.frames) :
           /\ probe.out.session.frames[i].time = probe.out.baseTimeSec
           /\ probe.out.session.frames[i].values = (name :> e[1].value)

Spelling(name) == toLowerCase(Compact(name))
OneKeyPerBlendshape(map) ==
  \A a \in DOMAIN map, b \in DOMAIN map : Spelling(a) = Spelling(b) => a = b

C19_CanonicalizeIdempotent ==
  probe.fn = "canonicalizeBlendshapeName twice"
    => probe.out = canonicalizeBlendshapeName(probe.arg)

\* a key that is not its own canonical form (a separator spelling with blanks
\* around it) was canonicalized twice, to jawOpen
C19_Witness ==
  /\ probe.fn = "canonicalizeBlendshapeName twice"
  /\ probe.arg = <<" ">> \o jaw_open \o <<" ">>
  /\ probe.out = jawOpen

\* C20: every weight of the map update() returned and every weight of every
\* session's current weights is in [0, 1].
InRange(map) == \A name \in DOMAIN map : 0 <= map[name] /\ map[name] <= W_ONE

C20_WeightsInRange ==
  /\ InRange(totals)
  /\ \A i \in 1..Len(heap) : InRange(heap[i].currentValues)

\* two stored sessions contribute jawOpen to the map update() returned: one with
\* the weight 1.5 of its response cut to 1, the other with 0.5
C20_Witness ==
  /\ \A id \in Ids : Stored(id)
  /\ \E a \in Ids, b \in Ids :
       /\ heap[sessions[a]].currentValues = (jawOpen :> W_ONE)
       /\ heap[sessions[b]].currentValues = (jawOpen :> 500)
  /\ totals = (jawOpen :> W_ONE)

\* a session that is complete and has an empty queue decays from the weight cut
\* to 1
C20_DecayReached ==
  \E i \in 1..Len(heap) :
    /\ heap[i].audioCompleted
    /\ heap[i].frameQueue = <<>>
    /\ heap[i].currentValues = (jawOpen :> (W_ONE * A2F_DECAY_FACTOR) \div 100)

\* C21: the chunks a completed drain carried are in no backlog afterwards and in
\* no request issued afterwards.
C21_DrainOnlyAdvances ==
  /\ ~obs.redrained
  /\ \A i \in 1..Len(heap) :
       /\ \A k \in 1..Len(heap[i].chunks) : heap[i].chunks[k].cid \notin obs.drainedCids
       /\ \A k \in 1..Len(heap[i].floatChunks) : heap[i].floatChunks[k].cid \notin obs.drainedCids

\* after a drain has completed, a drain request with chunks that arrived later
\* is in flight
C21_Witness ==
  /\ obs.drainedCids # {}
  /\ \E slot \in 1..MaxReqs :
       /\ requests[slot].status = "outstanding"
       /\ requests[slot].kind = "drain"
       /\ requests[slot].cids # {}
       /\ \A c \in requests[slot].cids, d \in obs.drainedCids : c > d

\* The chunks of a backlog array, as chunk numbers, are in arrival order.
InArrivalOrder(chunks) == \A k \in 1..(Len(chunks) - 1) : chunks[k].cid < chunks[k + 1].cid

\* C22: a step that ingests a chunk (a PCM16 delta or a float32 chunk) leaves it
\* at the end of a backlog array of its session, and every backlog array is in
\* arrival order.
C22_ChunksQueuedInOrder ==
  [][env'.chunks # env.chunks =>
       /\ \E i \in 1..Len(heap') :
            \/ /\ heap'[i].chunks # <<>>
               /\ heap'[i].chunks[Len(heap'[i].chunks)].cid = env'.chunks
            \/ /\ heap'[i].floatChunks # <<>>
               /\ heap'[i].floatChunks[Len(heap'[i].floatChunks)].cid = env'.chunks
       /\ \A i \in 1..Len(heap') :
            InArrivalOrder(heap'[i].chunks) /\ InArrivalOrder(heap'[i].floatChunks)]_vars

\* C22 for the PCM16 deltas alone: every delta is at the end of its session's
\* chunks afterwards.
C22_DeltasQueuedInOrder ==
  [][(env'.chunks # env.chunks /\ \E id \in Ids, ms \in ChunkMs : AudioDelta(id, ms)) =>
       /\ \E i \in 1..Len(heap') :
            /\ heap'[i].chunks # <<>>
            /\ heap'[i].chunks[Len(heap'[i].chunks)].cid = env'.chunks
       /\ \A i \in 1..Len(heap') : InArrivalOrder(heap'[i].chunks)]_vars

\* C23: no frame of a stored session's queue has a time before the time of a
\* frame the session has emitted: a batch that arrives with such frames is kept
\* out of the queue.
C23_NoFrameBehindEmitted ==
  \A id \in Ids :
    (Stored(id) /\ id \in DOMAIN obs.emittedFrame) =>
      \A k \in 1..Len(heap[sessions[id]].frameQueue) :
        heap[sessions[id]].frameQueue[k].time >= obs.emittedFrame[id]

\* What a reader of the payload alone can tell: the base64 text of the payload
\* (its alphabet characters, URL-safe ones included, and '=') has a length no
\* base64 string has, or fewer than two characters of data before the padding.
Base64Text(p) == SelectSeq(p, LAMBDA c : c \in {"A", "+", "/", "-", "_", "="})
DataLength(t) == IF \E i \in 1..Len(t) : t[i] = "="
                   THEN (CHOOSE i \in 1..Len(t) : t[i] = "=" /\ \A j \in 1..(i - 1) : t[j] # "=") - 1
                   ELSE Len(t)
CannotBeDecoded(p) == Len(Base64Text(p)) % 4 = 1 \/ DataLength(Base64Text(p)) < 2

C25_DegenerateGivesEmpty ==
  (probe.fn = "normalized" /\ (probe.arg.data = <<>> \/ ~IsFiniteNumber(probe.arg.rate)))
    => probe.out = <<>>

\* C25, the empty buffer alone: an empty buffer gives an empty result at any rate.
C25_EmptyGivesEmpty ==
  (probe.fn = "normalized" /\ probe.arg.data = <<>>) => probe.out = <<>>

\* the exact round(n * 16000 / r), a half going up
ExpectedLength(n, r) == ((2 * n * 16000) + r) \div (2 * r)

\* C26: n samples at a rate r give round(n * 16000 / r) PCM16 samples, give or
\* take one, each in [-32768, 32767].
C26_LengthAndRange ==
  (probe.fn = "normalized" /\ IsFiniteNumber(probe.arg.rate) /\ probe.arg.rate > 0) =>
     /\ LET n == IF probe.arg.kind = "pcm16"
                   THEN Len(probe.arg.data) \div 2 ELSE Len(probe.arg.data)
        IN Abs(Len(probe.out) - ExpectedLength(n, probe.arg.rate)) <= 1
     /\ \A i \in 1..Len(probe.out) : probe.out[i] >= -32768 /\ probe.out[i] <= 32767

\* Scenario A: 14400 samples at 48 kHz come out as 4800 samples.
C26_Witness ==
  /\ probe.fn = "normalized"
  /\ probe.arg.rate = 48000
  /\ Len(probe.arg.data) = 14400
  /\ Abs(Len(probe.out) - 4800) <= 1
  /\ \E i \in 1..Len(probe.out) : probe.out[i] = -32768

StrictlyIncreasing(frames) ==
  \A k \in 1..(Len(frames) - 1) :
    frames[k].time < frames[k + 1].time /\ frames[k].localTime < frames[k + 1].localTime

\* the frames of the response in the order of their time codes, a frame
\* without one standing at its index
InTimeOrder(data) == SortByTime(PrepareFrames(data.frames))

\* the difference of the two frames before position k, one frame step when
\* there are not two
LastDelta(frames, k) ==
  IF k > 2 THEN frames[k - 1].localTime - frames[k - 2].localTime ELSE DEFAULT_FRAME_DELTA_SEC

\* the last difference above 1e-6 s before position k, one frame step when there
\* is none
RECURSIVE RunningDelta(_, _)
RunningDelta(frames, k) ==
  IF k <= 2 THEN DEFAULT_FRAME_DELTA_SEC
  ELSE IF frames[k - 1].localTime - frames[k - 2].localTime > UNITS_PER_SEC \div 1000000
         THEN frames[k - 1].localTime - frames[k - 2].localTime
         ELSE RunningDelta(frames, k - 1)

TiesOrRegresses(data, frames, k) ==
  /\ k > 1
  /\ InTimeOrder(data)[k].timeCode # NoTime
  /\ InTimeOrder(data)[k].timeCode <= frames[k - 1].localTime

\* C27 as written: the times of a normalized batch are strictly increasing, and
\* a frame that ties or regresses is placed the last observed positive delta
\* after its predecessor, one frame step when no delta was observed.
C27_BumpedByLastDelta ==
  probe.fn = "applyBlendshapeFrames" =>
    /\ StrictlyIncreasing(probe.out)
    /\ \A k \in 1..Len(probe.out) :
         TiesOrRegresses(probe.arg, probe.out, k) =>
           probe.out[k].localTime = probe.out[k - 1].localTime + LastDelta(probe.out, k)

\* C27: the times of a normalized batch are strictly increasing, and a frame
\* that ties or regresses is placed after its predecessor by the running delta
\* (the last delta above 1e-6 s) when that exceeds 1e-4 s, and by one frame step
\* otherwise.
C27_BumpedByRunningDelta ==
  probe.fn = "applyBlendshapeFrames" =>
    /\ StrictlyIncreasing(probe.out)
    /\ \A k \in 1..Len(probe.out) :
         TiesOrRegresses(probe.arg, probe.out, k) =>
           probe.out[k].localTime =
             probe.out[k - 1].localTime +
               (IF RunningDelta(probe.out, k) > MERGE_EPSILON
                  THEN RunningDelta(probe.out, k) ELSE DEFAULT_FRAME_DELTA_SEC)

\* a tie after a delta of two frame steps is bumped by two frame steps
C27_Witness ==
  /\ probe.fn = "applyBlendshapeFrames"
  /\ Len(probe.out) = 3
  /\ TiesOrRegresses(probe.arg, probe.out, 3)
  /\ probe.out[2].localTime - probe.out[1].localTime = 2 * DEFAULT_FRAME_DELTA_SEC
  /\ probe.out[3].localTime - probe.out[2].localTime = 2 * DEFAULT_FRAME_DELTA_SEC

\* the response index of a normalized frame, read off its weight
ResponseIndex(frame) == frame.values[CHOOSE key \in DOMAIN frame.values : TRUE] \div 100

\* C28: a frame without a time code stands where it stood in the response, at
\* the time of the frame before it plus the running delta.
C28_KeepsPositionAndFollows ==
  probe.fn = "applyBlendshapeFrames" =>
    \A i \in 1..Len(probe.arg.frames) :
      probe.arg.frames[i].timeCode = NoTime =>
        /\ ResponseIndex(probe.out[i]) = i
        /\ i > 1 => probe.out[i].localTime =
                      probe.out[i - 1].localTime + RunningDelta(probe.out, i)

\* C28 for batches whose time codes are all missing: response order is kept and
\* the frames are one frame step apart from time zero
C28_AllMissingInOrder ==
  (probe.fn = "applyBlendshapeFrames"
     /\ \A i \in 1..Len(probe.arg.frames) : probe.arg.frames[i].timeCode = NoTime) =>
    \A i \in 1..Len(probe.out) :
      /\ ResponseIndex(probe.out[i]) = i
      /\ probe.out[i].localTime = (i - 1) * DEFAULT_FRAME_DELTA_SEC

\* C29, what it means for the queue: a frame that update() emitted was accepted
\* from an earlier response than any frame that entered the queue after it, so
\* no frame in the queue lies more than FRAME_LATE_DROP_SEC behind an emitted one.
C29_QueuedNotFarBehindAccepted ==
  \A id \in Ids :
    (Stored(id) /\ id \in DOMAIN obs.emittedFrame) =>
      \A k \in 1..Len(heap[sessions[id]].frameQueue) :
        heap[sessions[id]].frameQueue[k].time >= obs.emittedFrame[id] - FRAME_LATE_DROP_SEC

\* C30: storing a response with at least one frame moves framesCoveredSec at
\* least one frame step past the value it had when the request was issued, so
\* the next request gets a later base time.
C30_AdvancesByAFrameStep ==
  (probe.fn = "handleBlendshapeResponse" /\ probe.arg.frames # <<>>) =>
    probe.out.session.framesCoveredSec >= probe.out.baseTimeSec + DEFAULT_FRAME_DELTA_SEC

\* C30, the first half: storing a response never lowers framesCoveredSec.
C30_NeverDecreases ==
  probe.fn = "handleBlendshapeResponse" =>
    probe.out.session.framesCoveredSec >= probe.out.baseTimeSec

\* C30 for single-frame batches: one frame advances framesCoveredSec by a frame
\* step or more.
C30_SingleFrameAdvances ==
  (probe.fn = "handleBlendshapeResponse" /\ Len(probe.arg.frames) = 1) =>
    probe.out.session.framesCoveredSec >= probe.out.baseTimeSec + DEFAULT_FRAME_DELTA_SEC

\* the response of the request in the slot brings no frame into use: it has no
\* frames, or the late-drop counter of the session counts every one of them
NoUsableFrames(slot, data) ==
  LET obj == requests[slot].obj
  IN \/ data.frames = <<>>
     \/ /\ obj \in 1..Len(heap')
        /\ heap'[obj].lateDropsTotal = heap[obj].lateDropsTotal + Len(data.frames)

\* C31: a response with zero usable frames, stored for a session that stays in
\* the store, leaves the frame queue of that session as it was.
C31_UnusableLeavesQueue ==
  [][\A slot \in 1..MaxReqs, data \in UnusableBatches :
       (RequestSucceeds(slot, data) /\ NoUsableFrames(slot, data)
          /\ requests[slot].obj \in Live(World)
          /\ \E id \in Ids : sessions'[id] = requests[slot].obj) =>
         heap'[requests[slot].obj].frameQueue = heap[requests[slot].obj].frameQueue]_vars

\* a frame is queued and not yet playable, and the only frame of a later
\* response was dropped as late
C31_Witness ==
  \E i \in 1..Len(heap) :
    heap[i].frameQueue # <<>> /\ ~heap[i].anchor.set /\ heap[i].lateDropsTotal > 0

\* the effective minimum drain interval of drainToA2F
DrainInterval == Max2(MIN_DRAIN_INTERVAL_MS, DEFAULT_DRAIN_INTERVAL_MS)

\* ms of audio of session object s that the request r was encoded from
SentMs(s, r) ==
  LET all == IF r.chunkType = "float32" THEN s.floatChunks ELSE s.chunks
  IN SumMs(SelectSeq(all, LAMBDA c : c.cid \in r.cids))

\* slot holds, after the step, a drain request that the step issued
IssuedDrain(slot) ==
  /\ requests'[slot].status = "outstanding"
  /\ requests'[slot].kind = "drain"
  /\ \/ requests[slot].status # "outstanding"
     \/ requests[slot].cids # requests'[slot].cids
     \/ requests[slot].obj # requests'[slot].obj

\* C32: a non-forced drain issues a request only if at least the minimum drain
\* interval has elapsed since the start of the session's previous drain request
\* and the audio it sends amounts to at least the minimum target duration.
C32_NonForcedDrainIsPaced ==
  [][\A slot \in 1..MaxReqs :
       (IssuedDrain(slot) /\ ~requests'[slot].force) =>
         LET ref == requests'[slot].obj
         IN /\ (ref \in 1..Len(heap) /\ heap[ref].lastDrainRequestedAt > 0)
                 => now' - heap[ref].lastDrainRequestedAt >= DrainInterval
            /\ SentMs(heap'[ref], requests'[slot]) >= DEFAULT_DRAIN_TARGET_SEC]_vars

\* C32, the duration half alone: every non-forced drain request carries at
\* least the minimum target duration of audio.
C32_NonForcedDrainIsFull ==
  [][\A slot \in 1..MaxReqs :
       (IssuedDrain(slot) /\ ~requests'[slot].force) =>
         SentMs(heap'[requests'[slot].obj], requests'[slot]) >= DEFAULT_DRAIN_TARGET_SEC]_vars

\* every session object's backlog is empty and every chunk ever ingested was
\* part of a drain request that succeeded
AllSent ==
  /\ 1..env.chunks \subseteq obs.drainedCids
  /\ \A i \in 1..Len(heap) : heap[i].chunks = <<>> /\ heap[i].floatChunks = <<>>

\* C33: after the producer's completion signal, when the driver stays active
\* and every request succeeds, all audio ingested before the signal is
\* eventually sent and the backlog becomes empty, whether or not a request was
\* in flight when the signal arrived.
C33_BacklogEventuallySent ==
  \A id \in {"r1"} : (id \in obs.stopSeen) ~> AllSent

\* the signal has arrived while a non-forced request was in flight and more
\* audio than that request carries is waiting
C33_Witness ==
  \E id \in Ids, slot \in 1..MaxReqs :
    /\ id \in obs.stopSeen
    /\ Stored(id)
    /\ requests[slot].status = "outstanding"
    /\ requests[slot].obj = sessions[id]
    /\ ~requests[slot].force
    /\ requests[slot].cbs # <<>>
    /\ Len(heap[sessions[id]].chunks) > Cardinality(requests[slot].cids) + 1

\* ms of audio waiting in session object s, in the array its source type selects
BacklogMs(s) ==
  LET sourceType == IF s.sourceType # "none" THEN s.sourceType
                    ELSE IF Len(s.floatChunks) > 0 THEN "float32" ELSE "pcm16"
  IN SumMs(IF sourceType = "pcm16" THEN s.chunks ELSE s.floatChunks)

\* the drain request in slot succeeds in this step and leaves a backlog of at
\* least the minimum target duration
CompletesWithBacklog(slot, data) ==
  /\ requests[slot].status = "outstanding"
  /\ requests[slot].kind = "drain"
  /\ RequestSucceeds(slot, data)
  /\ requests[slot].obj \in 1..Len(heap')
  /\ BacklogMs(heap'[requests[slot].obj]) >= DEFAULT_DRAIN_TARGET_SEC

\* after the step a request for the backlog of session object ref is in flight
RequestInFlightFor(ref) ==
  /\ heap'[ref].pending # 0
  /\ requests'[heap'[ref].pending].status = "outstanding"
  /\ requests'[heap'[ref].pending].obj = ref

\* C34: when a drain request completes while the remaining backlog is at least
\* the minimum target duration, another request for that backlog is issued in
\* the same step, whatever the latency of the completed request.
C34_RedrainOnCompletion ==
  [][\A slot \in 1..MaxReqs, data \in {EmptyBatch, SingleBatch} :
       CompletesWithBacklog(slot, data) => RequestInFlightFor(requests[slot].obj)]_vars

\* C34 for latencies of at least the minimum drain interval
C34_RedrainAfterInterval ==
  [][\A slot \in 1..MaxReqs, data \in {EmptyBatch, SingleBatch} :
       (CompletesWithBacklog(slot, data) /\ now - requests[slot].startedAt >= DrainInterval)
         => RequestInFlightFor(requests[slot].obj)]_vars

\* the backlog array of session object s that a request of the given chunk type
\* was encoded from
BacklogOf(s, chunkType) == IF chunkType = "float32" THEN s.floatChunks ELSE s.chunks

DrainBatches == {EmptyBatch, SingleBatch, PairBatch, TieBatch, RegressBatch}

\* the drain request in slot succeeds in this step and its session object is
\* in the store afterwards
DrainSucceeds(slot, data) ==
  /\ requests[slot].status = "outstanding"
  /\ requests[slot].kind = "drain"
  /\ RequestSucceeds(slot, data)
  /\ \E id \in Ids : sessions'[id] = requests[slot].obj

\* C35: when a drain request completes successfully, exactly the chunks that
\* were encoded into it leave the backlog; the chunks ingested while it was in
\* flight stay queued in their order.
C35_ExactlySentAudioRemoved ==
  [][\A slot \in 1..MaxReqs, data \in DrainBatches :
       DrainSucceeds(slot, data) =>
         LET r == requests[slot]
         IN BacklogOf(heap'[r.obj], r.chunkType)
              = SelectSeq(BacklogOf(heap[r.obj], r.chunkType), LAMBDA c : c.cid \notin r.cids)]_vars

\* the fields of a session object that the handlers of its own session own
SessionFields(s) ==
  <<s.chunks, s.floatChunks, s.frameQueue, s.anchor, s.pending, s.audioCompleted,
    s.currentValues>>

\* the step leaves every session object of another id as it was
OthersUntouched(id) ==
  \A i \in 1..Len(heap) : heap[i].id # id => SessionFields(heap'[i]) = SessionFields(heap[i])

\* the step handles an event, an audio chunk, a response or a timer of session id
HandledFor(id) ==
  \/ AudioDelta(id, DEFAULT_DRAIN_TARGET_SEC)
  \/ activeResponseId = id /\ FloatChunk(NoId, DEFAULT_DRAIN_TARGET_SEC)
  \/ \E kind \in {"stop", "done"} : LifecycleEvent(kind, id)
  \/ FallbackTimerFired(id)
  \/ \E slot \in 1..MaxReqs, data \in {SingleBatch, OutOfRangeBatch} :
       requests[slot].sid = id /\ RequestSucceeds(slot, data)
  \/ SetPlaybackAnchor(id, 0, 0)

\* C36: handling an event, audio chunk, response or timer of one session leaves
\* the backlog, frame queue, anchor, in-flight marker, completion flag and
\* current weights of every other session unchanged.
C36_OtherSessionsUntouched ==
  [][\A id \in {"r1", "r2"} : HandledFor(id) => OthersUntouched(id)]_vars

\* both sessions are stored with state of their own: frames of a response and
\* the completion flag in one, a request in flight and no flag in the other
C36_Witness ==
  \E a \in Ids, b \in Ids :
    /\ a # b /\ Stored(a) /\ Stored(b)
    /\ heap[sessions[a]].frameQueue # <<>>
    /\ heap[sessions[a]].audioCompleted
    /\ heap[sessions[b]].pending # 0
    /\ ~heap[sessions[b]].audioCompleted
    /\ heap[sessions[b]].frameQueue = <<>>

\* C37: after any sequence of calls to the drain setters, the minimum target
\* duration lies in [0.11 s, 0.45 s] and the effective minimum drain interval
\* in [40 ms, 200 ms].
C37_SettersStayInRange ==
  probe.fn = "setters" =>
    /\ probe.out[1] >= MIN_DRAIN_TARGET_SEC
    /\ probe.out[1] <= MAX_DRAIN_TARGET_SEC
    /\ EffectiveInterval(probe.out[2]) >= MIN_DRAIN_INTERVAL_MS
    /\ EffectiveInterval(probe.out[2]) <= MAX_DRAIN_INTERVAL_MS

\* both values sit at an edge of their range after a call whose argument lay
\* beyond it
C37_Witness ==
  /\ probe.fn = "setters"
  /\ probe.out = <<MAX_DRAIN_TARGET_SEC, MIN_DRAIN_INTERVAL_MS>>
  /\ probe.arg = <<"setDrainTargetSeconds", MAX_DRAIN_TARGET_SEC * MAX_DRAIN_TARGET_SEC>>

\* the drain request in slot is stale: its session object was reset after the
\* request was issued, so the object's pending marker no longer points at it
Stale(slot) ==
  /\ requests[slot].status = "outstanding"
  /\ requests[slot].kind = "drain"
  /\ heap[requests[slot].obj].pending # slot

\* every drain request in flight is the one its session object marks as pending
PendingMarksRequest ==
  \A slot \in 1..MaxReqs : ~Stale(slot)

\* C38: the completion of a drain request that was in flight when
\* prepareForResponse reset its session adds no frames to the session's queue
\* and removes nothing from its backlog.
C38_StaleCompletionIsInert ==
  [][\A slot \in 1..MaxReqs, data \in DrainBatches :
       (Stale(slot) /\ DrainSucceeds(slot, data)) =>
         LET r == requests[slot]
         IN /\ heap'[r.obj].frameQueue = heap[r.obj].frameQueue
            /\ BacklogOf(heap'[r.obj], r.chunkType) = BacklogOf(heap[r.obj], r.chunkType)]_vars

\* the idle test of a tick: after the tick's own pump the completion flag is
\* set and the frame queue is empty
IdleAt(s, audioTime) ==
  LET pumped == IF audioTime # NoTime THEN pumpSessionFrames(s, audioTime) ELSE s
  IN pumped.audioCompleted /\ pumped.frameQueue = <<>>

\* C39: a tick removes a session from the store only if its completion flag was
\* set and its frame queue was empty at every tick during an interval longer
\* than the idle grace period; a session that a tick finds with frames left in
\* its queue or without the completion flag is not closed by that tick.
\* Stated step by step: a closing tick finds the session idle and idle since
\* more than the grace period; idleDrainSince is the instant of the first tick
\* of the current unbroken run of idle ticks (a tick that does not find the
\* session idle clears it, an idle tick sets it once); no other handler sets it.
C39_ClosedOnlyAfterIdleGrace ==
  [][/\ \A id \in Ids, audioTime \in AudioTimes :
          (Stored(id) /\ Update(audioTime)) =>
            LET s == heap[sessions[id]]
                idle == IdleAt(s, audioTime)
                since == IF s.idleDrainSince = NoTime THEN now ELSE s.idleDrainSince
            IN /\ sessions'[id] = 0 =>
                    (idle /\ s.idleDrainSince # NoTime
                          /\ now - s.idleDrainSince > IDLE_CLOSE_MS)
               /\ sessions'[id] # 0 =>
                    heap'[sessions'[id]].idleDrainSince = IF idle THEN since ELSE NoTime
     /\ (~ \E audioTime \in AudioTimes : Update(audioTime)) =>
          /\ \A i \in 1..Len(heap) :
               heap'[i].idleDrainSince \in {heap[i].idleDrainSince, NoTime}
          /\ \A i \in (Len(heap) + 1)..Len(heap') : heap'[i].idleDrainSince = NoTime]_vars

\* a session that played a frame was closed by a tick after its completion signal
C39_Witness ==
  \E id \in Ids :
    /\ id \in obs.stopSeen
    /\ id \in DOMAIN obs.emittedAt
    /\ ~Stored(id)
    /\ env.ticked

\* C40: while a session has no playback anchor, a tick emits none and drops
\* none of its queued frames, whatever audio clock the tick is given: the
\* session stays in the store with its queue, its current weights, its late-drop
\* count and its last emission time as they were.
C40_UnanchoredFramesStay ==
  [][\A id \in Ids, audioTime \in AudioTimes :
       (/\ Stored(id)
        /\ ~heap[sessions[id]].anchor.set
        /\ heap[sessions[id]].frameQueue # <<>>
        /\ Update(audioTime)) =>
         LET ref == sessions[id]
         IN /\ sessions'[id] = ref
            /\ heap'[ref].frameQueue = heap[ref].frameQueue
            /\ heap'[ref].currentValues = heap[ref].currentValues
            /\ heap'[ref].lateDropsTotal = heap[ref].lateDropsTotal
            /\ heap'[ref].lastEmitAudioTime = heap[ref].lastEmitAudioTime]_vars

\* a tick has run on a session without an anchor that holds two frames
C40_Witness ==
  /\ env.ticked
  /\ \E id \in Ids :
       /\ Stored(id)
       /\ ~heap[sessions[id]].anchor.set
       /\ Len(heap[sessions[id]].frameQueue) >= 2
       /\ id \notin DOMAIN obs.emittedAt

====
